---- MODULE Spec2Model ----
(***************************************************************************)
(* lazyissues: the panel stack (src/ui/ui_stack.rs) and the main widget    *)
(* that owns it (src/ui.rs).                                               *)
(*                                                                         *)
(* SpecStack drives a UiStack through its public methods with arbitrary    *)
(* arguments.  SpecUi is the Ui widget: construction, key events, ticks    *)
(* and the request worker threads that feed its result channel.  SpecLoop  *)
(* is the EventLoop of src/lib.rs, which turns terminal events and the     *)
(* passing of time into Input and Tick events.                             *)
(***************************************************************************)
EXTENDS Integers, Sequences, FiniteSets, TLC

VARIABLES
    ui_stack,          \* UiStack: [panels, panel_names]
    overflow_checks,   \* build profile: TRUE when u8 overflow panics, FALSE when it wraps
    panicked,          \* the thread owning the stack has panicked
    call,              \* the last call: its name, arguments, return value and effects
    active_menu_item,  \* Ui.active_menu_item
    data_channel,      \* the mpsc channel from data_clone_sender to data_receiver
    github_token,      \* Ui.config.github_token: Option as a sequence of length 0 or 1
    state,             \* Ui.state: State, its repository_state entry for repo_root
    active_remote,     \* Ui.active_remote: Option as a sequence of length 0 or 1
    quit,              \* Ui.quit
    workers,           \* request threads spawned by send_request and still running
    gitlab_token,      \* Config.gitlab_token
    gitea_token,       \* Config.gitea_token
    credential_attempts, \* Config.credential_attempts
    cred_pc,           \* set_access_tokens / get_access_token: the statement it is at
    token_type,        \* the backend get_access_token was called for
    child,             \* the credential helper process: its state and its output
    wait,              \* wait_for_credential_output: exit_status, rounds, polls, sleeps
    cred_log,          \* per backend, the sources asked and what they answered
    cred_ret,          \* what set_access_tokens returned
    app_pc,            \* main / TerminalApp::run: the statement the main thread is at
    terminal,          \* the terminal: raw mode, cursor, and how often it was cleaned up
    input_channel,     \* the mpsc channel from EventLoop.sender to input_receiver
    sender_alive,      \* the EventLoop thread, which owns the sender, is running
    fetches,           \* fetch threads spawned and running, results queued and received
    app_log,           \* the last step of the main thread, and why the loop was left
    requests,          \* the request threads in dispatch order: query type and status
    collection,        \* per list view, ListView.collection: the response it holds
    applied,           \* the responses Ui::tick has processed, in order
    completed,         \* the requests that have sent their response, in order
    list_view,         \* a ListView: its collection, item_amount, selected_item and flag
    list_sent,         \* the detail requests the ListView has sent: the items asked for
    remote_explorer,   \* a RemoteExplorer: the remotes, its mask, items and selection
    config_keys,       \* Config.keys: the action bound to each key event
    key_node,          \* the children of the keys node being read
    key_errors,        \* read_keys_node: its vector of errors
    rounds,            \* the rounds of the loop of read_keys_node so far
    keys_pc,           \* read_keys_node: in the loop, or what it returned
    loop_pc,           \* EventLoop::run: the statement the loop is at
    last_tick,         \* EventLoop.last_tick.elapsed(), in time units
    timeout,           \* the timeout EventLoop::run computed for event::poll
    terminal_events,   \* the terminal events waiting to be read
    receiver_open,     \* the receiving end of EventLoop.sender still exists
    sent,              \* what the last step of the loop sent: "None", "Tick", "Input"
    since_tick,        \* the time since the last Tick was sent (or run started)
    quiet              \* no terminal event was pending at the last Tick or arrived since

----------------------------------------------------------------------------
(* Bounds and program constants *)

\* u8::MAX, the largest priority a UiStack key can hold
U8_MAX == 255

\* add_panel is called with priorities 0..MaxPriority and with U8_MAX
MaxPriority == 1

\* add_panel is not called on a stack that already holds MaxPanels entries
MaxPanels == 3

ISSUES_VIEW_NAME == "issues_view"
PULL_REQUESTS_VIEW_NAME == "pull_requests_view"
PROJECTS_VIEW_NAME == "projects_view"
REMOTE_EXPLORER_NAME == "remote_explorer"

\* the names the stack is driven with in SpecStack
StackNames == {ISSUES_VIEW_NAME, REMOTE_EXPLORER_NAME}

\* the priorities add_panel / remove_panel are driven with in SpecStack
StackPriorities == (0..MaxPriority) \cup {U8_MAX}

\* the kinds of panel add_panel is driven with in SpecStack
StackKinds == {"ListView", "Ui"}

NoName == ""

----------------------------------------------------------------------------
(* Finite maps: BTreeMap / HashMap as functions on the set of their keys *)

EmptyMap == [k \in {} |-> 0]

MapInsert(m, k, v) == [x \in (DOMAIN m) \cup {k} |-> IF x = k THEN v ELSE m[x]]

MapRemove(m, k) == [x \in (DOMAIN m) \ {k} |-> m[x]]

SetMax(S) == CHOOSE x \in S : \A y \in S : y <= x

SetMin(S) == CHOOSE x \in S : \A y \in S : x <= y

----------------------------------------------------------------------------
(* PanelElement implementations *)

\* the implementors of PanelElement that can sit in a UiStack
PanelKinds == {"ListView", "RemoteExplorer", "Ui"}

\* a freshly constructed panel of a kind: not focused, not quitting
NewPanel(kind) == [kind |-> kind, is_focused |-> FALSE, quit |-> FALSE]

\* PanelElement::set_focus: ListView and RemoteExplorer store the flag and
\* return true, Ui ignores it and returns false
set_focus(panel, focus) ==
    IF panel.kind = "Ui"
    THEN [panel |-> panel, ret |-> FALSE]
    ELSE [panel |-> [panel EXCEPT !.is_focused = focus], ret |-> TRUE]

\* PanelElement::wants_to_quit: ListView never, RemoteExplorer and Ui their quit flag
wants_to_quit(panel) ==
    IF panel.kind = "ListView" THEN FALSE ELSE panel.quit

----------------------------------------------------------------------------
(* UiStack *)

\* UiStack::new
UiStackNew == [panels |-> EmptyMap, panel_names |-> EmptyMap]

\* an entry of `panels`: (Box<dyn PanelElement>, String)
Entry(panel, name) == [panel |-> panel, name |-> name]

\* UiStack::add_panel
add_panel(s, panel, priority, name) ==
    [panel_names |-> MapInsert(s.panel_names, name, priority),
     panels      |-> MapInsert(s.panels, priority, Entry(panel, name))]

\* remove_panel that forgets to drop the names of the removed entry
remove_panel_keeping_names(s, priority) ==
    [stack |-> [s EXCEPT !.panels = MapRemove(@, priority)],
     ret |-> IF priority \in DOMAIN s.panels THEN <<s.panels[priority]>> ELSE <<>>]

\* UiStack::remove_panel
remove_panel(s, priority) ==
    [stack |-> [panel_names |-> [n \in {x \in DOMAIN s.panel_names :
                                            s.panel_names[x] # priority}
                                    |-> s.panel_names[n]],
                panels      |-> MapRemove(s.panels, priority)],
     ret   |-> IF priority \in DOMAIN s.panels THEN <<s.panels[priority]>> ELSE <<>>]

\* UiStack::remove_highest_priority_panel
remove_highest_priority_panel(s) ==
    IF DOMAIN s.panels # {}
    THEN remove_panel(s, SetMax(DOMAIN s.panels))
    ELSE [stack |-> s, ret |-> <<>>]

\* UiStack::remove_lowest_priority_panel
remove_lowest_priority_panel(s) ==
    IF DOMAIN s.panels # {}
    THEN remove_panel(s, SetMin(DOMAIN s.panels))
    ELSE [stack |-> s, ret |-> <<>>]

\* UiStack::remove_panel_by_name
remove_panel_by_name(s, name) ==
    IF name \in DOMAIN s.panel_names
    THEN LET priority == s.panel_names[name] IN
         [stack |-> [panel_names |-> MapRemove(s.panel_names, name),
                     panels      |-> MapRemove(s.panels, priority)],
          ret   |-> IF priority \in DOMAIN s.panels THEN <<s.panels[priority]>> ELSE <<>>]
    ELSE [stack |-> s, ret |-> <<>>]

\* UiStack::get_highest_priority
get_highest_priority(s) ==
    IF DOMAIN s.panels = {} THEN 0 ELSE SetMax(DOMAIN s.panels)

\* UiStack::get_panel_ref_by_name / get_panel_mut_ref_by_name: Option as a
\* sequence of length 0 or 1
get_panel_ref_by_name(s, name) ==
    IF name \in DOMAIN s.panel_names /\ s.panel_names[name] \in DOMAIN s.panels
    THEN <<s.panels[s.panel_names[name]]>>
    ELSE <<>>

\* the keys of a BTreeMap in ascending order
RECURSIVE Ascending(_)
Ascending(S) ==
    IF S = {} THEN <<>> ELSE <<SetMin(S)>> \o Ascending(S \ {SetMin(S)})

\* UiStack::iter: the entries from lowest to highest priority
iter(s) ==
    LET keys == Ascending(DOMAIN s.panels) IN
    [i \in 1..Len(keys) |-> s.panels[keys[i]]]

\* UiStack::iter_rev: the entries from highest to lowest priority
iter_rev(s) ==
    LET fwd == iter(s) IN
    [i \in 1..Len(fwd) |-> fwd[Len(fwd) + 1 - i]]

\* UiStack::set_panel_priority_by_name
set_panel_priority_by_name(s, new_priority, name) ==
    IF name \in DOMAIN s.panel_names
    THEN LET priority == s.panel_names[name] IN
         IF new_priority = priority THEN s
         ELSE IF new_priority \in DOMAIN s.panels THEN s
         ELSE IF priority \in DOMAIN s.panels
              THEN [panel_names |-> MapInsert(s.panel_names, name, new_priority),
                    panels      |-> MapInsert(MapRemove(s.panels, priority),
                                              new_priority, s.panels[priority])]
              ELSE s
    ELSE s

\* the while loop of UiStack::normalize_priorities: pop the first entry, insert
\* it at `index`, copy over the names that pointed at its old priority
RECURSIVE NormalizeLoop(_, _, _, _, _)
NormalizeLoop(panels, new_panels, new_panel_names, index, panel_names_copy) ==
    IF DOMAIN panels = {}
    THEN [panels |-> new_panels, panel_names |-> new_panel_names]
    ELSE LET old_priority == SetMin(DOMAIN panels)
             moved == {n \in DOMAIN panel_names_copy : panel_names_copy[n] = old_priority}
         IN NormalizeLoop(MapRemove(panels, old_priority),
                          MapInsert(new_panels, index, panels[old_priority]),
                          [n \in (DOMAIN new_panel_names) \cup moved |->
                              IF n \in moved THEN index ELSE new_panel_names[n]],
                          index + 1,
                          panel_names_copy)

\* normalize_priorities with the running index started at 1 instead of 0
normalize_priorities_from_one(s) ==
    IF DOMAIN s.panels = {}
    THEN s
    ELSE NormalizeLoop(s.panels, EmptyMap, EmptyMap, 1, s.panel_names)

\* UiStack::normalize_priorities
normalize_priorities(s) ==
    IF DOMAIN s.panels = {}
    THEN s
    ELSE NormalizeLoop(s.panels, EmptyMap, EmptyMap, 0, s.panel_names)

\* the defocus step of UiStack::select_panel: the entry at the highest priority
\* loses focus unless it is the selected one
DefocusOld(s, name) ==
    LET highest == get_highest_priority(s) IN
    IF s.panel_names[name] # highest /\ highest \in DOMAIN s.panels
    THEN [s EXCEPT !.panels[highest].panel = set_focus(@, FALSE).panel]
    ELSE s

\* select_panel without the early return: a panel that is missing or refuses
\* focus still gets the stack normalized
select_panel_without_early_return(s, name, checks) ==
    LET found == get_panel_ref_by_name(s, name) IN
    IF found = <<>> \/ ~set_focus(found[1].panel, TRUE).ret
    THEN [stack |-> normalize_priorities(s), ret |-> FALSE, panic |-> FALSE]
    ELSE LET focus == set_focus(found[1].panel, TRUE)
             focused == [s EXCEPT !.panels[s.panel_names[name]].panel = focus.panel]
             defocused == DefocusOld(focused, name)
             highest == get_highest_priority(defocused)
         IN IF highest = U8_MAX /\ checks
            THEN [stack |-> defocused, ret |-> FALSE, panic |-> TRUE]
            ELSE [stack |-> normalize_priorities(
                                set_panel_priority_by_name(
                                    defocused, (highest + 1) % (U8_MAX + 1), name)),
                  ret   |-> TRUE,
                  panic |-> FALSE]

\* UiStack::select_panel.  `checks` says whether the build panics on u8
\* overflow (debug profile) or wraps (release profile) in
\* `self.get_highest_priority() + 1`.
select_panel(s, name, checks) ==
    LET found == get_panel_ref_by_name(s, name) IN
    IF found = <<>>
    THEN [stack |-> s, ret |-> FALSE, panic |-> FALSE]
    ELSE LET focus == set_focus(found[1].panel, TRUE) IN
         IF ~focus.ret
         THEN [stack |-> s, ret |-> FALSE, panic |-> FALSE]
         ELSE LET focused == [s EXCEPT !.panels[s.panel_names[name]].panel = focus.panel]
                  defocused == DefocusOld(focused, name)
                  highest == get_highest_priority(defocused)
              IN IF highest = U8_MAX /\ checks
                 THEN [stack |-> defocused, ret |-> FALSE, panic |-> TRUE]
                 ELSE [stack |-> normalize_priorities(
                                     set_panel_priority_by_name(
                                         defocused, (highest + 1) % (U8_MAX + 1), name)),
                       ret   |-> TRUE,
                       panic |-> FALSE]

----------------------------------------------------------------------------
(* SpecStack: a UiStack driven through its public methods *)

\* DEFAULT_CREDENTIAL_ATTEMPTS
DEFAULT_CREDENTIAL_ATTEMPTS == 4

\* the threads running per request type, none running
NoWorkers == [t \in {"Issues", "PullRequests", "Projects"} |-> 0]

ui_vars == <<active_menu_item, data_channel, github_token, state, active_remote,
             quit, workers>>

loop_vars == <<loop_pc, last_tick, timeout, terminal_events, receiver_open, sent,
               since_tick, quiet>>

cred_vars == <<gitlab_token, gitea_token, credential_attempts, cred_pc, token_type,
               child, wait, cred_log, cred_ret>>

app_vars == <<app_pc, terminal, input_channel, sender_alive, fetches, app_log>>

race_vars == <<requests, collection, applied, completed>>

keys_vars == <<config_keys, key_node, key_errors, rounds, keys_pc>>

list_vars == <<list_view, list_sent>>

explorer_vars == <<remote_explorer>>

\* the variables of the parts modelled on their own
unit_vars == <<keys_vars, list_vars, explorer_vars>>

vars == <<ui_stack, overflow_checks, panicked, call, ui_vars, loop_vars, cred_vars, app_vars,
          race_vars, unit_vars>>

\* no keys node is being read
KeysNone ==
    /\ config_keys = <<>>
    /\ key_node = <<>>
    /\ key_errors = <<>>
    /\ rounds = <<>>
    /\ keys_pc = "none"

\* no list view on its own
ListNone ==
    /\ list_view = <<>>
    /\ list_sent = <<>>

\* no remote explorer on its own
ExplorerNone == remote_explorer = <<>>

\* none of the parts modelled on their own is in use
UnitsNone ==
    /\ KeysNone
    /\ ListNone
    /\ ExplorerNone

\* the request threads are not told apart
RaceNone ==
    /\ requests = <<>>
    /\ collection = <<>>
    /\ applied = <<>>
    /\ completed = <<>>

\* main has not been called
AppNone ==
    /\ app_pc = "none"
    /\ terminal = [raw_mode |-> FALSE, cursor_shown |-> TRUE, cleanups |-> 0]
    /\ input_channel = <<>>
    /\ sender_alive = FALSE
    /\ fetches = [spawned |-> 0, running |-> 0, queued |-> 0, received |-> 0]
    /\ app_log = [op |-> "none", draws |-> 0, reason |-> ""]

\* Config::default: no token, and set_access_tokens has not been called
CredNew ==
    /\ gitlab_token = <<>>
    /\ gitea_token = <<>>
    /\ credential_attempts = DEFAULT_CREDENTIAL_ATTEMPTS
    /\ cred_pc = "new"
    /\ token_type = "github"
    /\ child = [state |-> "none", stdout |-> <<>>]
    /\ wait = [exit_status |-> "None", round |-> 0, polls |-> <<>>, sleeps |-> 0, ret |-> ""]
    /\ cred_log = [b \in {"github", "gitlab", "gitea"} |-> <<>>]
    /\ cred_ret = ""

\* EventLoop::new: the loop has not run
LoopNew ==
    /\ loop_pc = "loop"
    /\ last_tick = 0
    /\ timeout = 0
    /\ terminal_events = <<>>
    /\ receiver_open = TRUE
    /\ sent = "None"
    /\ since_tick = 0
    /\ quiet = TRUE

\* `changed` records whether the call left the stack different from before
Call(op, name, priority, ret, before, after) ==
    [op |-> op, name |-> name, priority |-> priority, ret |-> ret,
     changed |-> before # after]

InitStack ==
    /\ ui_stack = UiStackNew
    /\ overflow_checks \in BOOLEAN
    /\ panicked = FALSE
    /\ call = Call("new", NoName, 0, FALSE, UiStackNew, UiStackNew)
    /\ active_menu_item = "Issues"
    /\ data_channel = <<>>
    /\ github_token = <<>>
    /\ state = [repository_state |-> <<>>]
    /\ active_remote = <<>>
    /\ quit = FALSE
    /\ workers = NoWorkers
    /\ LoopNew
    /\ UnitsNone
    /\ RaceNone
    /\ CredNew
    /\ AppNone

AddPanel ==
    /\ ~panicked
    /\ \E kind \in StackKinds, priority \in StackPriorities, name \in StackNames :
          /\ Cardinality(DOMAIN ui_stack.panels) < MaxPanels
          /\ kind = "Ui" => \A p \in DOMAIN ui_stack.panels : ui_stack.panels[p].panel.kind # "Ui"
          /\ ui_stack' = add_panel(ui_stack, NewPanel(kind), priority, name)
          /\ call' = Call("add_panel", name, priority, FALSE, ui_stack, ui_stack')
    /\ UNCHANGED <<loop_vars, cred_vars, app_vars, race_vars, unit_vars, overflow_checks, panicked, ui_vars>>

RemovePanel ==
    /\ ~panicked
    /\ \E priority \in StackPriorities \cup DOMAIN ui_stack.panels :
          LET r == remove_panel(ui_stack, priority) IN
          /\ ui_stack' = r.stack
          /\ call' = Call("remove_panel", NoName, priority, r.ret # <<>>, ui_stack, r.stack)
    /\ UNCHANGED <<loop_vars, cred_vars, app_vars, race_vars, unit_vars, overflow_checks, panicked, ui_vars>>

RemoveHighestPriorityPanel ==
    /\ ~panicked
    /\ LET r == remove_highest_priority_panel(ui_stack) IN
          /\ ui_stack' = r.stack
          /\ call' = Call("remove_highest_priority_panel", NoName, 0, r.ret # <<>>, ui_stack, r.stack)
    /\ UNCHANGED <<loop_vars, cred_vars, app_vars, race_vars, unit_vars, overflow_checks, panicked, ui_vars>>

RemoveLowestPriorityPanel ==
    /\ ~panicked
    /\ LET r == remove_lowest_priority_panel(ui_stack) IN
          /\ ui_stack' = r.stack
          /\ call' = Call("remove_lowest_priority_panel", NoName, 0, r.ret # <<>>, ui_stack, r.stack)
    /\ UNCHANGED <<loop_vars, cred_vars, app_vars, race_vars, unit_vars, overflow_checks, panicked, ui_vars>>

RemovePanelByName ==
    /\ ~panicked
    /\ \E name \in StackNames :
          LET r == remove_panel_by_name(ui_stack, name) IN
          /\ ui_stack' = r.stack
          /\ call' = Call("remove_panel_by_name", name, 0, r.ret # <<>>, ui_stack, r.stack)
    /\ UNCHANGED <<loop_vars, cred_vars, app_vars, race_vars, unit_vars, overflow_checks, panicked, ui_vars>>

SelectPanel ==
    /\ ~panicked
    /\ \E name \in StackNames :
          LET r == select_panel(ui_stack, name, overflow_checks) IN
          /\ ui_stack' = r.stack
          /\ panicked' = r.panic
          /\ call' = Call("select_panel", name, 0, r.ret, ui_stack, r.stack)
    /\ UNCHANGED <<loop_vars, cred_vars, app_vars, race_vars, unit_vars, overflow_checks, ui_vars>>

NormalizePriorities ==
    /\ ~panicked
    /\ ui_stack' = normalize_priorities(ui_stack)
    /\ call' = Call("normalize_priorities", NoName, 0, FALSE, ui_stack, ui_stack')
    /\ UNCHANGED <<loop_vars, cred_vars, app_vars, race_vars, unit_vars, overflow_checks, panicked, ui_vars>>

NextStack ==
    \/ AddPanel
    \/ RemovePanel
    \/ RemoveHighestPriorityPanel
    \/ RemoveLowestPriorityPanel
    \/ RemovePanelByName
    \/ SelectPanel
    \/ NormalizePriorities

SpecStack == InitStack /\ [][NextStack]_vars

----------------------------------------------------------------------------
(* Ui: the main widget, which owns a UiStack and the receiving end of the
   result channel *)

\* at most MaxPending results are in flight: request threads still running
\* plus envelopes queued on the channel.  A thread spawned beyond that ends
\* without sending (its runtime could not be created), a remote picked beyond
\* that fails to resolve.
MaxPending == 2

\* the git repository root Ui::new reads
REPO_ROOT == "/repo"

\* remote urls: one that repo_regex captures owner and name from, one it does not
Remotes == {"git@github.com:owner/name.git", "https://example.org/mirror"}

\* Regex ":(?<owner>.*)/(?<name>.*).git$" of send_request: whether it captures
repo_regex_captures(remote) == remote = "git@github.com:owner/name.git"

MenuItems == {"Issues", "PullRequests", "Projects"}

\* RequestType::iter
RequestTypes == <<"Issues", "PullRequests", "Projects">>

\* RepoData: ActiveRemote(url), or the response of a list query whose
\* `repository` is Some or None
ActiveRemote(remote) == [type |-> "ActiveRemote", remote |-> remote, repository |-> FALSE]

ListData(request_type, repository) ==
    [type |-> request_type, remote |-> "", repository |-> repository]

\* the name of the list view that shows the data of a request type
ViewName(request_type) ==
    CASE request_type = "Issues" -> ISSUES_VIEW_NAME
      [] request_type = "PullRequests" -> PULL_REQUESTS_VIEW_NAME
      [] request_type = "Projects" -> PROJECTS_VIEW_NAME

\* key events: code and modifiers
Key(code, modifiers) == [code |-> code, modifiers |-> modifiers]

Keys == {Key("q", "NONE"), Key("Tab", "NONE"), Key("Enter", "NONE"), Key("Esc", "NONE"),
         Key("j", "NONE"), Key("BackTab", "SHIFT"), Key("I", "SHIFT"), Key("P", "SHIFT"),
         Key("R", "SHIFT"), Key("n", "CONTROL"), Key("q", "CONTROL")}

\* what one handler of Ui did: the envelopes it processed, its calls of
\* State::set_repository_data, of send_request and of thread::spawn, in order
\* and, for handle_input, the priorities of the panels it offered the key to,
\* whether one of them consumed it, and the global command it ran; for tick,
\* the names of the panels it called update on and the panels it inserted,
\* and the errors of set_repository_data it logged
Effects(op) ==
    [op |-> op, received |-> <<>>, set_calls |-> <<>>, dispatched |-> <<>>, spawned |-> <<>>,
     offered |-> <<>>, handled |-> FALSE, command |-> "",
     updated |-> <<>>, inserted |-> <<>>, set_errors |-> <<>>]

Pending(channel, running) ==
    Len(channel) + running["Issues"] + running["PullRequests"] + running["Projects"]

\* the Ui fields and the effect log, threaded through the steps of a handler
UiRecord(stack, item, channel, repo_state, remote, q, running, panic, log) ==
    [ui_stack |-> stack, active_menu_item |-> item, data_channel |-> channel,
     state |-> repo_state, active_remote |-> remote, quit |-> q, workers |-> running,
     panicked |-> panic, log |-> log]

\* one call of send_request, as its caller sees it
Dispatch(request_type, ret) == [request_type |-> request_type, ret |-> ret]

\* send_request without its two precondition checks
send_request_unchecked(ui, token, request_type) ==
    [ui EXCEPT
        !.log.dispatched = Append(@, Dispatch(request_type, "Ok")),
        !.log.spawned = Append(@, request_type),
        !.workers = IF Pending(ui.data_channel, ui.workers) < MaxPending
                    THEN [@ EXCEPT ![request_type] = @ + 1]
                    ELSE @]

\* Ui::send_request: no token or no remote is Ok without a thread, a remote the
\* regex does not capture is Err, otherwise one thread is spawned
send_request(ui, token, request_type) ==
    LET returns(ret) == [ui EXCEPT !.log.dispatched = Append(@, Dispatch(request_type, ret))] IN
    IF token = <<>> THEN returns("Ok")
    ELSE IF ui.active_remote = <<>> THEN returns("Ok")
    ELSE IF ~repo_regex_captures(ui.active_remote[1]) THEN returns("Err")
    ELSE [returns("Ok") EXCEPT
            !.log.spawned = Append(@, request_type),
            !.workers = IF Pending(ui.data_channel, ui.workers) < MaxPending
                        THEN [@ EXCEPT ![request_type] = @ + 1]
                        ELSE @]

\* request_all that fetches for the active view only
request_active_only(ui, token) == send_request(ui, token, ui.active_menu_item)

\* Ui::request_all
request_all(ui, token) ==
    send_request(send_request(send_request(ui, token, RequestTypes[1]),
                              token, RequestTypes[2]),
                 token, RequestTypes[3])

\* add_menu_panels that adds the three views and selects none
add_menu_panels_selecting_none(s, checks) ==
    add_panel(
        add_panel(
            add_panel(s, NewPanel("ListView"), 2, ISSUES_VIEW_NAME),
            NewPanel("ListView"), 0, PULL_REQUESTS_VIEW_NAME),
        NewPanel("ListView"), 1, PROJECTS_VIEW_NAME)

\* Ui::add_menu_panels
add_menu_panels(s, checks) ==
    select_panel(
        add_panel(
            add_panel(
                add_panel(s, NewPanel("ListView"), 2, ISSUES_VIEW_NAME),
                NewPanel("ListView"), 0, PULL_REQUESTS_VIEW_NAME),
            NewPanel("ListView"), 1, PROJECTS_VIEW_NAME),
        ISSUES_VIEW_NAME, checks).stack

\* Ui::open_remote_explorer, when RemoteExplorer::new succeeds
open_remote_explorer(s) ==
    add_panel(s, NewPanel("RemoteExplorer"), get_highest_priority(s) + 1,
              REMOTE_EXPLORER_NAME)

\* select_view that refreshes every view instead of the selected one
select_view_requesting_all(ui, token, checks, item) ==
    LET r == select_panel(ui.ui_stack, ViewName(item), checks) IN
    request_all([ui EXCEPT !.active_menu_item = item, !.ui_stack = r.stack], token)

\* Ui::select_issues_view / select_pull_requests_view / select_projects_view
select_view(ui, token, checks, item) ==
    LET r == select_panel(ui.ui_stack, ViewName(item), checks) IN
    IF r.panic
    THEN [ui EXCEPT !.active_menu_item = item, !.ui_stack = r.stack, !.panicked = TRUE]
    ELSE send_request([ui EXCEPT !.active_menu_item = item, !.ui_stack = r.stack],
                      token, item)

\* Ui::select_next_menu_item
select_next_menu_item(ui, token, checks) ==
    CASE ui.active_menu_item = "Issues" -> select_view(ui, token, checks, "PullRequests")
      [] ui.active_menu_item = "PullRequests" -> select_view(ui, token, checks, "Projects")
      [] ui.active_menu_item = "Projects" -> select_view(ui, token, checks, "Issues")

\* select_previous_menu_item that rotates in the direction of select_next_menu_item
select_previous_menu_item_rotating_forward(ui, token, checks) ==
    CASE ui.active_menu_item = "Issues" -> select_view(ui, token, checks, "PullRequests")
      [] ui.active_menu_item = "PullRequests" -> select_view(ui, token, checks, "Projects")
      [] ui.active_menu_item = "Projects" -> select_view(ui, token, checks, "Issues")

\* Ui::select_previous_menu_item
select_previous_menu_item(ui, token, checks) ==
    CASE ui.active_menu_item = "Issues" -> select_view(ui, token, checks, "Projects")
      [] ui.active_menu_item = "PullRequests" -> select_view(ui, token, checks, "Issues")
      [] ui.active_menu_item = "Projects" -> select_view(ui, token, checks, "PullRequests")

\* a remote explorer that lets every key through to the panels below it
PanelHandlesInListViewOnly(panel, key) ==
    panel.kind = "ListView" /\ key.modifiers = "NONE" /\ key.code \in {"j", "k"}

\* a remote explorer that consumes only the keys it has an arm for, those
\* without modifier or with SHIFT
PanelHandlesMatchedKeysOnly(panel, key) ==
    CASE panel.kind = "RemoteExplorer" -> key.modifiers \in {"NONE", "SHIFT"}
      [] panel.kind = "ListView" -> key.modifiers = "NONE" /\ key.code \in {"j", "k"}
      [] OTHER -> FALSE

\* ListView::handle_input consumes j and k without modifiers,
\* RemoteExplorer::handle_input consumes every key
PanelHandles(panel, key) ==
    CASE panel.kind = "RemoteExplorer" -> TRUE
      [] panel.kind = "ListView" -> key.modifiers = "NONE" /\ key.code \in {"j", "k"}
      [] OTHER -> FALSE

\* a remote explorer that closes on Enter whether or not the selection went through
explorer_closing_on_enter(ui, p, key, picked) ==
    IF key.modifiers = "NONE" /\ key.code \in {"Enter", "Esc"}
    THEN [ui EXCEPT !.ui_stack.panels[p].panel.quit = TRUE]
    ELSE ui

\* RemoteExplorer::handle_input at priority p.  `picked` is what select_remote
\* resolves on Enter: <<url>>, or <<>> when nothing is selected or the url
\* lookup fails.
explorer_handle_input(ui, p, key, picked) ==
    IF key.modifiers = "NONE" /\ key.code = "Enter"
    THEN IF picked # <<>> /\ Pending(ui.data_channel, ui.workers) < MaxPending
         THEN [ui EXCEPT !.data_channel = Append(@, ActiveRemote(picked[1])),
                         !.ui_stack.panels[p].panel.quit = TRUE]
         ELSE ui
    ELSE IF key.modifiers = "NONE" /\ key.code = "Esc"
         THEN [ui EXCEPT !.ui_stack.panels[p].panel.quit = TRUE]
         ELSE ui

\* PanelElement::handle_input of the panel at priority p
panel_handle_input(ui, p, key, picked) ==
    IF ui.ui_stack.panels[p].panel.kind = "RemoteExplorer"
    THEN explorer_handle_input(ui, p, key, picked)
    ELSE ui

\* the loop of Ui::handle_input over iter_rev: each panel in turn is handed
\* the key, the first that returns true ends the loop
RECURSIVE offer(_, _, _, _)
offer(ui, priorities, key, picked) ==
    IF priorities = <<>>
    THEN ui
    ELSE LET p == Head(priorities)
             offered == [ui EXCEPT !.log.offered = Append(@, p)]
         IN IF PanelHandles(ui.ui_stack.panels[p].panel, key)
            THEN [panel_handle_input(offered, p, key, picked) EXCEPT !.log.handled = TRUE]
            ELSE offer(panel_handle_input(offered, p, key, picked), Tail(priorities),
                       key, picked)

\* the priorities of a stack from highest to lowest, as iter_rev visits them
Descending(s) ==
    LET keys == Ascending(DOMAIN s.panels) IN
    [i \in 1..Len(keys) |-> keys[Len(keys) + 1 - i]]

\* the global commands of Ui::handle_input.  `explorer_ok` is whether
\* RemoteExplorer::new succeeds.
global_command(ui, token, checks, key, explorer_ok) ==
    LET runs(command) == [ui EXCEPT !.log.command = command] IN
    CASE key.modifiers = "NONE" /\ key.code = "q" -> [runs("quit") EXCEPT !.quit = TRUE]
      [] key.modifiers = "NONE" /\ key.code = "Tab" ->
            select_next_menu_item(runs("select_next_menu_item"), token, checks)
      [] key.modifiers = "SHIFT" /\ key.code = "BackTab" ->
            select_previous_menu_item(runs("select_previous_menu_item"), token, checks)
      [] key.modifiers = "SHIFT" /\ key.code = "I" ->
            select_view(runs("select_issues_view"), token, checks, "Issues")
      [] key.modifiers = "SHIFT" /\ key.code = "P" ->
            select_view(runs("select_pull_requests_view"), token, checks, "PullRequests")
      [] key.modifiers = "SHIFT" /\ key.code = "R" ->
            select_view(runs("select_projects_view"), token, checks, "Projects")
      [] key.modifiers = "CONTROL" /\ key.code = "n" ->
            IF explorer_ok
            THEN [runs("open_remote_explorer") EXCEPT !.ui_stack = open_remote_explorer(@)]
            ELSE runs("open_remote_explorer")
      [] OTHER -> ui

\* handle_input that runs the global command whether or not a panel took the key
handle_input_always_global(ui, token, checks, key, picked, explorer_ok) ==
    global_command(offer(ui, Descending(ui.ui_stack), key, picked),
                   token, checks, key, explorer_ok)

\* Ui::handle_input: the panels are offered the key from the highest priority
\* down, the first that consumes it ends the call; otherwise the key is
\* matched against the global commands
handle_input(ui, token, checks, key, picked, explorer_ok) ==
    LET offered == offer(ui, Descending(ui.ui_stack), key, picked) IN
    IF offered.log.handled
    THEN offered
    ELSE global_command(offered, token, checks, key, explorer_ok)

\* State::set_repository_data: the entry is inserted, then write_to_kdl
\* writes the state file or fails, and its error is returned
set_repository_data(repo_state, remote, write_ok) ==
    [state |-> [repo_state EXCEPT !.repository_state = <<remote>>],
     ret |-> IF write_ok THEN "Ok" ELSE "Err"]

\* the arms of the match of Ui::tick for the results of the list queries:
\* the view of the request type is updated, or inserted on top when the
\* stack has none; a result without repository is dropped
process_list_data(ui, data) ==
    LET logged == [ui EXCEPT !.log.received = Append(@, data)] IN
    IF data.repository
    THEN LET top_priority == get_highest_priority(ui.ui_stack) + 1 IN
         IF get_panel_ref_by_name(ui.ui_stack, ViewName(data.type)) # <<>>
         THEN [logged EXCEPT !.log.updated = Append(@, ViewName(data.type))]
         ELSE [logged EXCEPT
                  !.ui_stack = add_panel(@, NewPanel("ListView"), top_priority,
                                         ViewName(data.type)),
                  !.log.inserted = Append(@, <<ViewName(data.type), top_priority>>)]
    ELSE logged

\* process_data that leaves the Ui as it was when the state cannot be written
process_data_stopping_on_error(ui, data, write_ok) ==
    LET logged == [ui EXCEPT !.log.received = Append(@, data)] IN
    IF data.type = "ActiveRemote"
    THEN LET set == set_repository_data(ui.state, data.remote, write_ok) IN
         IF set.ret = "Err"
         THEN [logged EXCEPT
                 !.log.set_calls = Append(@, <<REPO_ROOT, data.remote>>),
                 !.log.set_errors = Append(@, data.remote)]
         ELSE [logged EXCEPT
                 !.state = set.state,
                 !.log.set_calls = Append(@, <<REPO_ROOT, data.remote>>),
                 !.active_remote = <<data.remote>>]
    ELSE process_list_data(ui, data)

\* one iteration of the loop of Ui::tick over data_response_data
process_data(ui, data, write_ok) ==
    LET logged == [ui EXCEPT !.log.received = Append(@, data)] IN
    IF data.type = "ActiveRemote"
    THEN LET set == set_repository_data(ui.state, data.remote, write_ok) IN
         [logged EXCEPT
            !.state = set.state,
            !.log.set_calls = Append(@, <<REPO_ROOT, data.remote>>),
            !.log.set_errors = IF set.ret = "Err" THEN Append(@, data.remote) ELSE @,
            !.active_remote = <<data.remote>>]
    ELSE process_list_data(ui, data)

RECURSIVE process_all(_, _, _)
process_all(ui, data_response_data, write_ok) ==
    IF data_response_data = <<>>
    THEN ui
    ELSE process_all(process_data(ui, Head(data_response_data), write_ok),
                     Tail(data_response_data), write_ok)

\* the end of Ui::tick: every panel that wants to quit is removed
RECURSIVE remove_panels(_, _)
remove_panels(s, priorities_to_quit) ==
    IF priorities_to_quit = <<>>
    THEN s
    ELSE remove_panels(remove_panel(s, Head(priorities_to_quit)).stack,
                       Tail(priorities_to_quit))

reap_quitting(s) ==
    remove_panels(s, Ascending({p \in DOMAIN s.panels : wants_to_quit(s.panels[p].panel)}))

\* tick whose try_recv takes the envelope pushed last
tick_receiving_newest(ui, token, write_ok) ==
    LET data_response_data ==
            IF ui.data_channel # <<>>
            THEN <<ui.data_channel[Len(ui.data_channel)]>> ELSE <<>>
        received == IF ui.data_channel # <<>>
                    THEN [ui EXCEPT !.data_channel = SubSeq(@, 1, Len(@) - 1)]
                    ELSE ui
        processed == process_all(received, data_response_data, write_ok)
        should_refresh_issues ==
            \E i \in 1..Len(data_response_data) : data_response_data[i].type = "ActiveRemote"
        refreshed == IF should_refresh_issues THEN request_all(processed, token) ELSE processed
    IN [refreshed EXCEPT !.ui_stack = reap_quitting(@)]

\* Ui::tick: try_recv takes at most one envelope into data_response_data, the
\* loop drains data_response_data, an ActiveRemote among them triggers
\* request_all, and the panels that want to quit are removed
tick(ui, token, write_ok) ==
    LET data_response_data ==
            IF ui.data_channel # <<>> THEN <<Head(ui.data_channel)>> ELSE <<>>
        received == IF ui.data_channel # <<>>
                    THEN [ui EXCEPT !.data_channel = Tail(@)]
                    ELSE ui
        processed == process_all(received, data_response_data, write_ok)
        should_refresh_issues ==
            \E i \in 1..Len(data_response_data) : data_response_data[i].type = "ActiveRemote"
        refreshed == IF should_refresh_issues THEN request_all(processed, token) ELSE processed
    IN [refreshed EXCEPT !.ui_stack = reap_quitting(@)]

\* Ui::new that opens the remote explorer whether or not a remote is saved
new_opening_explorer(token, saved_remote, checks) ==
    LET ui == UiRecord(add_menu_panels(UiStackNew, checks), "Issues", <<>>,
                       [repository_state |-> saved_remote], saved_remote, FALSE,
                       NoWorkers, FALSE, Effects("new"))
    IN [request_all(ui, token) EXCEPT !.ui_stack = open_remote_explorer(@)]

\* Ui::new, when the repository root is found and, without a saved remote,
\* the remote explorer opens
new(token, saved_remote, checks) ==
    LET ui == UiRecord(add_menu_panels(UiStackNew, checks), "Issues", <<>>,
                       [repository_state |-> saved_remote], saved_remote, FALSE,
                       NoWorkers, FALSE, Effects("new"))
    IN IF ui.active_remote # <<>>
       THEN request_all(ui, token)
       ELSE [ui EXCEPT !.ui_stack = open_remote_explorer(@)]

----------------------------------------------------------------------------
(* SpecUi: the Ui driven by key events and ticks, with its request threads *)

Options(S) == {<<>>} \cup {<<x>> : x \in S}

\* the Ui fields as a record, with an empty effect log for the handler `op`
Self(op) ==
    UiRecord(ui_stack, active_menu_item, data_channel, state, active_remote, quit,
             workers, panicked, Effects(op))

\* the variables after a handler left the Ui as `ui`
Becomes(ui) ==
    /\ ui_stack' = ui.ui_stack
    /\ active_menu_item' = ui.active_menu_item
    /\ data_channel' = ui.data_channel
    /\ state' = ui.state
    /\ active_remote' = ui.active_remote
    /\ quit' = ui.quit
    /\ workers' = ui.workers
    /\ panicked' = ui.panicked
    /\ call' = ui.log

InitUi ==
    /\ LoopNew
    /\ UnitsNone
    /\ RaceNone
    /\ CredNew
    /\ AppNone
    /\ overflow_checks = TRUE
    /\ github_token \in Options({"token"})
    /\ \E saved_remote \in Options(Remotes) :
          LET ui == new(github_token, saved_remote, overflow_checks) IN
          /\ ui_stack = ui.ui_stack
          /\ active_menu_item = ui.active_menu_item
          /\ data_channel = ui.data_channel
          /\ state = ui.state
          /\ active_remote = ui.active_remote
          /\ quit = ui.quit
          /\ workers = ui.workers
          /\ panicked = ui.panicked
          /\ call = ui.log

\* the driver delivers a key event
HandleInput ==
    /\ ~quit /\ ~panicked
    /\ \E key \in Keys, picked \in Options(Remotes), explorer_ok \in BOOLEAN :
          \* the remote picked matters to Enter only, the explorer's creation to Ctrl+n only
          /\ key # Key("Enter", "NONE") => picked = <<>>
          /\ key # Key("n", "CONTROL") => explorer_ok
          /\ Becomes(handle_input(Self("handle_input"), github_token, overflow_checks,
                               key, picked, explorer_ok))
    /\ UNCHANGED <<loop_vars, cred_vars, app_vars, race_vars, unit_vars, overflow_checks, github_token>>

\* the driver delivers a tick
Tick ==
    /\ ~quit /\ ~panicked
    /\ \E write_ok \in BOOLEAN :
          \* the write matters only when an ActiveRemote is taken off the channel
          /\ (data_channel = <<>> \/ Head(data_channel).type # "ActiveRemote") => write_ok
          /\ Becomes(tick(Self("tick"), github_token, write_ok))
    /\ UNCHANGED <<loop_vars, cred_vars, app_vars, race_vars, unit_vars, overflow_checks, github_token>>

\* the Ui as a step of another thread finds it
Shared ==
    UiRecord(ui_stack, active_menu_item, data_channel, state, active_remote, quit,
             workers, panicked, call)

\* a request thread that, besides sending, makes the view of its data the active one
request_thread_selecting_view(ui, request_type, repository) ==
    [ui EXCEPT
        !.workers[request_type] = @ - 1,
        !.data_channel = Append(@, ListData(request_type, repository)),
        !.active_menu_item = request_type]

\* the closure send_request spawns, when its query returned data: it owns a
\* clone of the sender, the variables of the query and the token, and sends
\* the data
request_thread(ui, request_type, repository) ==
    [ui EXCEPT
        !.workers[request_type] = @ - 1,
        !.data_channel = Append(@, ListData(request_type, repository))]

\* a request thread ends: its query returned data, whose `repository` is Some
\* or None, and the thread sends it
WorkerSends ==
    /\ \E t \in DOMAIN workers, repository \in BOOLEAN :
          /\ workers[t] > 0
          /\ Becomes(request_thread(Shared, t, repository))
    /\ UNCHANGED <<loop_vars, cred_vars, app_vars, race_vars, unit_vars, overflow_checks, github_token>>

\* a request thread ends without sending: the query failed or returned no data
WorkerFails ==
    /\ \E t \in DOMAIN workers :
          /\ workers[t] > 0
          /\ workers' = [workers EXCEPT ![t] = @ - 1]
    /\ UNCHANGED <<loop_vars, cred_vars, app_vars, race_vars, unit_vars, ui_stack, overflow_checks, panicked, call, active_menu_item,
                   github_token, state, active_remote, quit, data_channel>>

NextUi ==
    \/ HandleInput
    \/ Tick
    \/ WorkerSends
    \/ WorkerFails

SpecUi == InitUi /\ [][NextUi]_vars

----------------------------------------------------------------------------
(* EventLoop: polls the terminal, forwards key events as Input and sends a
   Tick when TICK_RATE has passed.  Time is counted in units of 50 ms; it
   passes while event::poll waits and while an event is read and forwarded. *)

\* TICK_RATE = 200 ms, in time units
TICK_RATE == 4

\* event::poll may return up to PollLate units after its timeout ran out
PollLate == 1

\* reading and forwarding one event takes up to HandleTime units
HandleTime == 1

\* at most MaxEvents terminal events wait to be read
MaxEvents == 2

\* elapsed times are counted up to MaxElapsed
MaxElapsed == 8

\* crossterm events: key events and the others (resize, mouse, focus, paste)
EventKinds == {"Key", "Resize"}

\* an elapsed time d units later
Later(elapsed, d) == IF elapsed + d > MaxElapsed THEN MaxElapsed ELSE elapsed + d

\* EventLoop::run: TICK_RATE.checked_sub(last_tick.elapsed()), or zero
poll_timeout(elapsed) == IF TICK_RATE >= elapsed THEN TICK_RATE - elapsed ELSE 0

\* send_tick that does not reset last_tick after sending
send_tick_keeping_last_tick(elapsed, open) ==
    IF elapsed >= TICK_RATE /\ open
    THEN [sent |-> "Tick", last_tick |-> elapsed]
    ELSE [sent |-> "None", last_tick |-> elapsed]

\* EventLoop::send_tick: what it sends and last_tick.elapsed() afterwards
send_tick(elapsed, open) ==
    IF elapsed >= TICK_RATE
    THEN IF open
         THEN [sent |-> "Tick", last_tick |-> 0]
         ELSE [sent |-> "None", last_tick |-> elapsed]
    ELSE [sent |-> "None", last_tick |-> elapsed]

\* EventLoop::handle_event: what it sends for the event that event::read returns
handle_event(event, open) == IF event = "Key" /\ open THEN "Input" ELSE "None"

stack_vars == <<ui_stack, overflow_checks, panicked, call>>

InitLoop ==
    /\ LoopNew
    /\ UnitsNone
    /\ RaceNone
    /\ CredNew
    /\ AppNone
    /\ ui_stack = UiStackNew
    /\ overflow_checks = TRUE
    /\ panicked = FALSE
    /\ call = Call("new", NoName, 0, FALSE, UiStackNew, UiStackNew)
    /\ active_menu_item = "Issues"
    /\ data_channel = <<>>
    /\ github_token = <<>>
    /\ state = [repository_state |-> <<>>]
    /\ active_remote = <<>>
    /\ quit = FALSE
    /\ workers = NoWorkers

\* the head of the loop: the timeout for this round
ComputeTimeout ==
    /\ loop_pc = "loop"
    /\ timeout' = poll_timeout(last_tick)
    /\ loop_pc' = "poll"
    /\ sent' = "None"
    /\ UNCHANGED <<last_tick, terminal_events, receiver_open, since_tick, quiet,
                   stack_vars, ui_vars, cred_vars, app_vars, race_vars, unit_vars>>

\* event::poll returns Ok(true): an event was waiting or arrived within the timeout
PollFound ==
    /\ loop_pc = "poll"
    /\ terminal_events # <<>>
    /\ \E waited \in 0..timeout :
          /\ last_tick' = Later(last_tick, waited)
          /\ since_tick' = Later(since_tick, waited)
    /\ loop_pc' = "handle_event"
    /\ sent' = "None"
    /\ UNCHANGED <<timeout, terminal_events, receiver_open, quiet, stack_vars, ui_vars, cred_vars, app_vars, race_vars, unit_vars>>

\* event::poll returns Ok(false): the timeout ran out with no event
PollTimeout ==
    /\ loop_pc = "poll"
    /\ terminal_events = <<>>
    /\ \E late \in 0..PollLate :
          /\ last_tick' = Later(last_tick, timeout + late)
          /\ since_tick' = Later(since_tick, timeout + late)
    /\ loop_pc' = "send_tick"
    /\ sent' = "None"
    /\ UNCHANGED <<timeout, terminal_events, receiver_open, quiet, stack_vars, ui_vars, cred_vars, app_vars, race_vars, unit_vars>>

\* event::poll returns Err: the error is printed and the loop goes round
PollErr ==
    /\ loop_pc = "poll"
    /\ loop_pc' = "loop"
    /\ sent' = "None"
    /\ UNCHANGED <<last_tick, timeout, terminal_events, receiver_open, since_tick, quiet,
                   stack_vars, ui_vars, cred_vars, app_vars, race_vars, unit_vars>>

\* EventLoop::handle_event: the first waiting event is read; a key event is
\* sent on as Input, any other event is dropped
HandleEvent ==
    /\ loop_pc = "handle_event"
    /\ terminal_events # <<>>
    /\ sent' = handle_event(Head(terminal_events), receiver_open)
    /\ terminal_events' = Tail(terminal_events)
    /\ \E took \in 0..HandleTime :
          /\ last_tick' = Later(last_tick, took)
          /\ since_tick' = Later(since_tick, took)
    /\ loop_pc' = "loop"
    /\ UNCHANGED <<timeout, receiver_open, quiet, stack_vars, ui_vars, cred_vars, app_vars, race_vars, unit_vars>>

\* EventLoop::send_tick
SendTick ==
    /\ loop_pc = "send_tick"
    /\ LET r == send_tick(last_tick, receiver_open) IN
          /\ sent' = r.sent
          /\ last_tick' = r.last_tick
          /\ since_tick' = IF r.sent = "Tick" THEN 0 ELSE since_tick
          /\ quiet' = IF r.sent = "Tick" THEN terminal_events = <<>> ELSE quiet
    /\ loop_pc' = "loop"
    /\ UNCHANGED <<timeout, terminal_events, receiver_open, stack_vars, ui_vars, cred_vars, app_vars, race_vars, unit_vars>>

\* the terminal produces an event
EventArrives ==
    /\ Len(terminal_events) < MaxEvents
    /\ \E kind \in EventKinds : terminal_events' = Append(terminal_events, kind)
    /\ quiet' = FALSE
    /\ UNCHANGED <<loop_pc, last_tick, timeout, receiver_open, sent, since_tick,
                   stack_vars, ui_vars, cred_vars, app_vars, race_vars, unit_vars>>

\* the thread that owns the receiver ends
ReceiverDropped ==
    /\ receiver_open
    /\ receiver_open' = FALSE
    /\ UNCHANGED <<loop_pc, last_tick, timeout, terminal_events, sent, since_tick, quiet,
                   stack_vars, ui_vars, cred_vars, app_vars, race_vars, unit_vars>>

\* the steps of the thread that runs EventLoop::run
LoopStep ==
    \/ ComputeTimeout
    \/ PollFound
    \/ PollTimeout
    \/ PollErr
    \/ HandleEvent
    \/ SendTick

NextLoop ==
    \/ LoopStep
    \/ EventArrives
    \/ ReceiverDropped

SpecLoop == InitLoop /\ [][NextLoop]_vars

\* the loop thread keeps running, and event::poll does not fail forever
SpecLoopFair ==
    /\ InitLoop
    /\ [][NextLoop]_vars
    /\ WF_vars(LoopStep)
    /\ SF_vars(PollFound \/ PollTimeout)

----------------------------------------------------------------------------
(* Config: the access tokens of the three backends.  set_access_tokens
   resolves one token per backend with get_access_token, which asks the
   environment, the OS secret store, the git credential helper and the
   token file, in this order.  The helper is a child process that runs on
   its own; wait_for_credential_output polls its exit status. *)

\* the backends, in the order set_access_tokens resolves them
Backends == <<"github", "gitlab", "gitea">>

\* credential_attempts is read from the configuration file: 0..MaxAttempts
MaxAttempts == 2

\* a Result<String, _>: Ok(token) or Err
Ok(token) == [ok |-> TRUE, token |-> token]
Err == [ok |-> FALSE, token |-> <<>>]

\* the sources of get_access_token, in the order it asks them
Sources == <<"env", "keyring", "helper", "file">>

\* the tokens the sources hold when they hold one
ENV_TOKEN == <<"e">>
KEYRING_TOKEN == <<"k">>
HELPER_TOKEN == <<"h">>

\* one line "key=value" of the helper's output
Line(key, value) == [key |-> key, value |-> value]

\* what `git credential fill` writes to its standard output: with or without
\* a password line
HelperOutputs ==
    {<<Line("username", <<"u">>)>>,
     <<Line("username", <<"u">>), Line("password", HELPER_TOKEN)>>}

\* the token file of a backend: no path configured, a path that cannot be
\* read, or a file with its contents
TokenFile(kind, contents) == [kind |-> kind, contents |-> contents]

TokenFiles ==
    {TokenFile("NoPath", <<>>), TokenFile("Unreadable", <<>>),
     TokenFile("File", <<"f">>), TokenFile("File", <<" ", "f", "\n">>)}

Whitespace == {" ", "\n"}

\* str::trim
RECURSIVE trim_start(_)
trim_start(s) ==
    IF s # <<>> /\ Head(s) \in Whitespace THEN trim_start(Tail(s)) ELSE s

RECURSIVE trim_end(_)
trim_end(s) ==
    IF s # <<>> /\ s[Len(s)] \in Whitespace THEN trim_end(SubSeq(s, 1, Len(s) - 1)) ELSE s

trim(s) == trim_end(trim_start(s))

\* read_token_file_backend!
read_token_file_backend(path) ==
    IF path.kind = "NoPath" THEN Err
    ELSE IF path.kind = "Unreadable" THEN Err
    ELSE Ok(trim(path.contents))

\* Command::new("git").args(["credential", "fill"]).spawn(): no Stdio::piped()
\* is set, so the child inherits the standard streams of the parent
stdout_piped == FALSE

\* no child process
NoChild == [state |-> "none", stdout |-> <<>>]

\* Output.stdout of wait_with_output: what the child wrote, if it was captured
captured_stdout(process) == IF stdout_piped THEN process.stdout ELSE <<>>

\* get_git_credential, from the output on: the value of the first line that
\* starts with "password="
RECURSIVE password_line(_)
password_line(lines) ==
    IF lines = <<>> THEN Err
    ELSE IF Head(lines).key = "password" THEN Ok(Head(lines).value)
    ELSE password_line(Tail(lines))

\* the loop of wait_for_credential_output with one round more
attempts_left_inclusive(round, attempts) == round <= attempts

\* wait_for_credential_output: `for _ in 0..self.credential_attempts`
attempts_left(round, attempts) == round < attempts

\* report_error_to_log!: Some(value) of Ok(value), None of Err
report_error_to_log(result) == IF result.ok THEN <<result.token>> ELSE <<>>

\* set_access_tokens that gives up at the first backend without a token
next_backend_or_fail(result, type) ==
    IF ~result.ok THEN [pc |-> "done", token_type |-> type, ret |-> "Err"]
    ELSE IF type = Backends[1] THEN [pc |-> "env", token_type |-> Backends[2], ret |-> ""]
    ELSE IF type = Backends[2] THEN [pc |-> "env", token_type |-> Backends[3], ret |-> ""]
    ELSE [pc |-> "done", token_type |-> type, ret |-> "Ok"]

\* set_access_tokens: the statement after the one that resolved `type`
next_backend(result, type) ==
    IF type = Backends[1] THEN [pc |-> "env", token_type |-> Backends[2], ret |-> ""]
    ELSE IF type = Backends[2] THEN [pc |-> "env", token_type |-> Backends[3], ret |-> ""]
    ELSE [pc |-> "done", token_type |-> type, ret |-> "Ok"]

\* what one source answered: found is whether the source held a token,
\* result is what get_access_token made of it
Attempt(source, found, result) == [source |-> source, found |-> found, result |-> result]

NoAttempts == [b \in {Backends[1], Backends[2], Backends[3]} |-> <<>>]

\* the state of one call of wait_for_credential_output
NoWait == [exit_status |-> "None", round |-> 0, polls |-> <<>>, sleeps |-> 0, ret |-> ""]

\* Config::default, and config.set_access_tokens() about to be called
InitCred ==
    /\ LoopNew
    /\ UnitsNone
    /\ RaceNone
    /\ AppNone
    /\ ui_stack = UiStackNew
    /\ overflow_checks = TRUE
    /\ panicked = FALSE
    /\ call = Effects("none")
    /\ active_menu_item = "Issues"
    /\ data_channel = <<>>
    /\ state = [repository_state |-> <<>>]
    /\ active_remote = <<>>
    /\ quit = FALSE
    /\ workers = NoWorkers
    /\ github_token = <<>>
    /\ gitlab_token = <<>>
    /\ gitea_token = <<>>
    /\ credential_attempts \in 0..MaxAttempts
    /\ cred_pc = "env"
    /\ token_type = Backends[1]
    /\ child = NoChild
    /\ wait = NoWait
    /\ cred_log = NoAttempts
    /\ cred_ret = ""

\* the source answered: its answer joins the attempts made for this backend
Logged(source, found, result) ==
    cred_log' = [cred_log EXCEPT ![token_type] = Append(@, Attempt(source, found, result))]

\* get_access_token returns `result`; set_access_tokens stores it in the field
\* of the backend and goes on
Returns(result) ==
    LET next == next_backend(result, token_type) IN
    /\ github_token' = IF token_type = "github" THEN report_error_to_log(result)
                       ELSE github_token
    /\ gitlab_token' = IF token_type = "gitlab" THEN report_error_to_log(result)
                       ELSE gitlab_token
    /\ gitea_token' = IF token_type = "gitea" THEN report_error_to_log(result)
                      ELSE gitea_token
    /\ cred_pc' = next.pc
    /\ token_type' = next.token_type
    /\ cred_ret' = next.ret

\* get_access_token goes on to its next source
FallsThrough(pc) ==
    /\ cred_pc' = pc
    /\ UNCHANGED <<github_token, gitlab_token, gitea_token, token_type, cred_ret>>

ui_fields == <<ui_stack, panicked, call, active_menu_item, data_channel, state,
               active_remote, quit, workers>>

\* env::var("{BACKEND}_TOKEN")
EnvVar ==
    /\ cred_pc = "env"
    /\ \E found \in BOOLEAN :
          LET result == IF found THEN Ok(ENV_TOKEN) ELSE Err IN
          /\ Logged("env", found, result)
          /\ IF result.ok THEN Returns(result) ELSE FallsThrough("keyring")
    /\ child' = NoChild
    /\ wait' = NoWait
    /\ UNCHANGED <<credential_attempts, ui_fields, overflow_checks, loop_vars, app_vars, race_vars, unit_vars>>

\* Entry::new("lazyissues", backend) and entry.get_password()
Keyring ==
    /\ cred_pc = "keyring"
    /\ \E found \in BOOLEAN :
          LET result == IF found THEN Ok(KEYRING_TOKEN) ELSE Err IN
          /\ Logged("keyring", found, result)
          /\ IF result.ok THEN Returns(result) ELSE FallsThrough("spawn")
    /\ UNCHANGED <<child, wait, credential_attempts, ui_fields, overflow_checks, loop_vars, app_vars, race_vars, unit_vars>>

\* get_git_credential: the helper is spawned, or spawning fails; child.stdin
\* is None because the stream is not piped, so nothing is written to it
SpawnHelper ==
    /\ cred_pc = "spawn"
    /\ \/ /\ Logged("helper", FALSE, Err)
          /\ FallsThrough("file")
          /\ UNCHANGED child
       \/ /\ \E stdout \in HelperOutputs : child' = [state |-> "running", stdout |-> stdout]
          /\ FallsThrough("try_wait")
          /\ UNCHANGED cred_log
    /\ wait' = NoWait
    /\ UNCHANGED <<credential_attempts, ui_fields, overflow_checks, loop_vars, app_vars, race_vars, unit_vars>>

\* the helper exits, having written its output
ChildExits ==
    /\ child.state = "running"
    /\ child' = [child EXCEPT !.state = "exited"]
    /\ UNCHANGED <<cred_pc, token_type, wait, cred_log, cred_ret, github_token,
                   gitlab_token, gitea_token, credential_attempts, ui_fields,
                   overflow_checks, loop_vars, app_vars, race_vars, unit_vars>>

\* child.try_wait(): Ok(Some(status)) once the helper has exited
TryWait ==
    /\ cred_pc = "try_wait"
    /\ LET status == IF child.state = "exited" THEN "Some" ELSE "None" IN
          wait' = [wait EXCEPT !.exit_status = status, !.polls = Append(@, status)]
    /\ FallsThrough("for")
    /\ UNCHANGED <<child, cred_log, credential_attempts, ui_fields, overflow_checks,
                   loop_vars, app_vars, race_vars, unit_vars>>

\* the head of the for loop and the match on exit_status: the output is
\* returned, or the thread is about to sleep, or the rounds are used up
ForAttempt ==
    /\ cred_pc = "for"
    /\ IF attempts_left(wait.round, credential_attempts)
       THEN IF wait.exit_status = "Some"
            THEN /\ wait' = [wait EXCEPT !.round = @ + 1, !.ret = "Output"]
                 /\ FallsThrough("parse")
            ELSE /\ wait' = [wait EXCEPT !.round = @ + 1]
                 /\ FallsThrough("sleep")
       ELSE /\ wait' = wait
            /\ FallsThrough("kill")
    /\ UNCHANGED <<child, cred_log, credential_attempts, ui_fields, overflow_checks,
                   loop_vars, app_vars, race_vars, unit_vars>>

\* std::thread::sleep(credential_timeout)
Sleep ==
    /\ cred_pc = "sleep"
    /\ wait' = [wait EXCEPT !.sleeps = @ + 1]
    /\ FallsThrough("try_wait")
    /\ UNCHANGED <<child, cred_log, credential_attempts, ui_fields, overflow_checks,
                   loop_vars, app_vars, race_vars, unit_vars>>

\* whether a poll of this wait saw that the helper had exited
Observed(w) == \E i \in DOMAIN w.polls : w.polls[i] = "Some"

\* whether the helper wrote a password line
HasPassword(process) == password_line(process.stdout).ok

\* a wait that gives up without killing the helper
child_left_alone(process) == process

\* Child::kill: a running process is killed, one that has exited stays as it is
child_kill(process) ==
    IF process.state = "running" THEN [process EXCEPT !.state = "killed"] ELSE process

\* child.kill() and Err("Credentialhelper timed out"): get_git_credential
\* fails and get_access_token goes on to the token file
Kill ==
    /\ cred_pc = "kill"
    /\ child' = child_kill(child)
    /\ wait' = [wait EXCEPT !.ret = "TimedOut"]
    /\ Logged("helper", Observed(wait) /\ HasPassword(child), Err)
    /\ FallsThrough("file")
    /\ UNCHANGED <<credential_attempts, ui_fields, overflow_checks, loop_vars, app_vars, race_vars, unit_vars>>

\* get_git_credential after the wait: the password line of the output
ParseOutput ==
    /\ cred_pc = "parse"
    /\ LET result == password_line(captured_stdout(child)) IN
          /\ Logged("helper", HasPassword(child), result)
          /\ IF result.ok THEN Returns(result) ELSE FallsThrough("file")
    /\ UNCHANGED <<child, wait, credential_attempts, ui_fields, overflow_checks, loop_vars, app_vars, race_vars, unit_vars>>

\* the token file of the backend
ReadTokenFile ==
    /\ cred_pc = "file"
    /\ \E path \in TokenFiles :
          LET result == read_token_file_backend(path) IN
          /\ Logged("file", path.kind = "File", result)
          /\ Returns(result)
    /\ UNCHANGED <<child, wait, credential_attempts, ui_fields, overflow_checks, loop_vars, app_vars, race_vars, unit_vars>>

\* Ui::new(config) with the configuration set_access_tokens left
UiNew ==
    /\ cred_pc = "done"
    /\ \E saved_remote \in Options(Remotes) :
          Becomes(new(github_token, saved_remote, overflow_checks))
    /\ cred_pc' = "ui"
    /\ UNCHANGED <<github_token, gitlab_token, gitea_token, credential_attempts, token_type,
                   child, wait, cred_log, cred_ret, overflow_checks, loop_vars, app_vars, race_vars, unit_vars>>

\* the steps of the thread that reads the configuration
CredStep ==
    \/ EnvVar
    \/ Keyring
    \/ SpawnHelper
    \/ TryWait
    \/ ForAttempt
    \/ Sleep
    \/ Kill
    \/ ParseOutput
    \/ ReadTokenFile
    \/ UiNew

NextCred ==
    \/ CredStep
    \/ ChildExits

SpecCred == InitCred /\ [][NextCred]_vars

\* the steps of wait_for_credential_output
WaitStep ==
    \/ TryWait
    \/ ForAttempt
    \/ Sleep
    \/ Kill

\* the thread that runs wait_for_credential_output keeps running; nothing is
\* assumed of the helper
SpecCredFair == InitCred /\ [][NextCred]_vars /\ WF_vars(WaitStep)

----------------------------------------------------------------------------
(* TerminalApp: setup_terminal of main.rs and the main loop of
   TerminalApp::run.  The thread of the EventLoop owns the sending end of
   the input channel; the main thread draws, blocks in recv, handles the
   event and takes one result of the fetch threads per round. *)

\* at most MaxQueued events wait in the input channel
MaxQueued == 2

\* at most MaxFetches fetch threads are spawned
MaxFetches == 1

\* clean-ups are counted up to MaxCleanups
MaxCleanups == 2

\* the events the EventLoop sends: Input with the code of the key, or Tick
Input(code) == [type |-> "Input", code |-> code]

AppEvents == {Input("q"), Input("I"), Input("P"), Input("x"), [type |-> "Tick", code |-> ""]}

\* the terminal as clean_up_terminal leaves it, whether it had run before or not
clean_up_terminal(term, disabled, shown) ==
    [raw_mode |-> IF disabled THEN FALSE ELSE term.raw_mode,
     cursor_shown |-> IF shown THEN TRUE ELSE term.cursor_shown,
     cleanups |-> IF term.cleanups < MaxCleanups THEN term.cleanups + 1 ELSE MaxCleanups]

\* TerminalApp::handle_input: whether the loop is to close, the menu item
\* afterwards, and whether a fetch thread was spawned
app_handle_input(event, item) ==
    IF event.type = "Input"
    THEN CASE event.code = "q" -> [close |-> TRUE, item |-> item, fetch |-> FALSE, clean |-> TRUE]
           [] event.code = "I" -> [close |-> FALSE, item |-> "Issues", fetch |-> TRUE, clean |-> FALSE]
           [] event.code = "P" -> [close |-> FALSE, item |-> "PullRequests", fetch |-> FALSE, clean |-> FALSE]
           [] event.code = "A" -> [close |-> FALSE, item |-> "Actions", fetch |-> FALSE, clean |-> FALSE]
           [] event.code = "r" -> [close |-> FALSE, item |-> "Projects", fetch |-> FALSE, clean |-> FALSE]
           [] OTHER -> [close |-> FALSE, item |-> item, fetch |-> FALSE, clean |-> FALSE]
    ELSE [close |-> FALSE, item |-> item, fetch |-> FALSE, clean |-> FALSE]

\* main() called, nothing done yet
InitApp ==
    /\ LoopNew
    /\ UnitsNone
    /\ RaceNone
    /\ CredNew
    /\ ui_stack = UiStackNew
    /\ overflow_checks = TRUE
    /\ panicked = FALSE
    /\ call = Effects("none")
    /\ active_menu_item = "Issues"
    /\ data_channel = <<>>
    /\ github_token = <<>>
    /\ state = [repository_state |-> <<>>]
    /\ active_remote = <<>>
    /\ quit = FALSE
    /\ workers = NoWorkers
    /\ app_pc = "main"
    /\ terminal = [raw_mode |-> FALSE, cursor_shown |-> TRUE, cleanups |-> 0]
    /\ input_channel = <<>>
    /\ sender_alive = FALSE
    /\ fetches = [spawned |-> 0, running |-> 0, queued |-> 0, received |-> 0]
    /\ app_log = [op |-> "main", draws |-> 0, reason |-> ""]

\* the variables the main loop does not touch
app_frame == <<ui_stack, overflow_checks, panicked, call, data_channel, github_token, state,
               active_remote, quit, workers, loop_vars, cred_vars, race_vars, unit_vars>>

\* the program stops
Stops(reason) ==
    /\ app_pc' = "stopped"
    /\ app_log' = [app_log EXCEPT !.op = "stop", !.reason = reason]

\* setup_terminal: enable_raw_mode().expect(..), the channel and the thread
\* of the EventLoop
SetupTerminal ==
    /\ app_pc = "main"
    /\ \/ /\ terminal' = [terminal EXCEPT !.raw_mode = TRUE]
          /\ sender_alive' = TRUE
          /\ app_pc' = "new"
          /\ app_log' = [app_log EXCEPT !.op = "setup_terminal"]
       \/ /\ Stops("panic")
          /\ UNCHANGED <<terminal, sender_alive>>
    /\ UNCHANGED <<input_channel, fetches, active_menu_item, app_frame>>

\* TerminalApp::new: Terminal::new succeeds, or setup_terminal logs the error
\* and returns
AppNew ==
    /\ app_pc = "new"
    /\ \/ /\ app_pc' = "clear"
          /\ app_log' = [app_log EXCEPT !.op = "new"]
          /\ UNCHANGED terminal
       \/ /\ Stops("new")
          /\ UNCHANGED terminal
    /\ UNCHANGED <<sender_alive, input_channel, fetches, active_menu_item, app_frame>>

\* TerminalApp::run up to the loop: terminal.clear(), the configuration and
\* the file explorer
Clear ==
    /\ app_pc = "clear"
    /\ \/ /\ app_pc' = "draw"
          /\ app_log' = [app_log EXCEPT !.op = "clear"]
          /\ active_menu_item' = "Issues"
          /\ UNCHANGED terminal
       \/ /\ Stops("clear")
          /\ UNCHANGED <<terminal, active_menu_item>>
    /\ UNCHANGED <<sender_alive, input_channel, fetches, app_frame>>

\* terminal.draw(..): its result is dropped
Draw ==
    /\ app_pc = "draw"
    /\ \E ok \in BOOLEAN :
          app_log' = [op |-> IF ok THEN "draw" ELSE "draw_failed",
                      draws |-> IF app_log.reason = "disconnected" /\ app_log.draws = 0
                                THEN 1 ELSE app_log.draws,
                      reason |-> app_log.reason]
    /\ app_pc' = "recv"
    /\ UNCHANGED <<terminal, sender_alive, input_channel, fetches, active_menu_item, app_frame>>

\* input_receiver.recv() returns an event and handle_input handles it
RecvOk ==
    /\ app_pc = "recv"
    /\ input_channel # <<>>
    /\ input_channel' = Tail(input_channel)
    /\ LET handled == app_handle_input(Head(input_channel), active_menu_item) IN
          /\ active_menu_item' = handled.item
          /\ fetches' = IF handled.fetch
                        THEN [fetches EXCEPT !.spawned = @ + 1, !.running = @ + 1]
                        ELSE fetches
          /\ IF handled.close
             THEN /\ \E disabled \in BOOLEAN, shown \in BOOLEAN :
                        terminal' = clean_up_terminal(terminal, disabled, shown)
                  /\ Stops("quit")
             ELSE /\ terminal' = terminal
                  /\ app_pc' = "try_recv"
                  /\ app_log' = [app_log EXCEPT !.op = "handle_input"]
    /\ UNCHANGED <<sender_alive, app_frame>>

\* input_receiver.recv() fails: the channel is empty and its sender is gone
RecvErr ==
    /\ app_pc = "recv"
    /\ input_channel = <<>>
    /\ ~sender_alive
    /\ \E disabled \in BOOLEAN, shown \in BOOLEAN :
          terminal' = clean_up_terminal(terminal, disabled, shown)
    /\ app_pc' = "try_recv"
    /\ app_log' = [app_log EXCEPT !.op = "recv_error", !.reason = "disconnected"]
    /\ UNCHANGED <<sender_alive, input_channel, fetches, active_menu_item, app_frame>>

\* query_receiver.try_recv(): one result, if one is there, joins
\* query_response_data
TryRecv ==
    /\ app_pc = "try_recv"
    /\ fetches' = IF fetches.queued > 0
                  THEN [fetches EXCEPT !.queued = @ - 1, !.received = @ + 1]
                  ELSE fetches
    /\ app_pc' = "draw"
    /\ app_log' = [app_log EXCEPT !.op = "try_recv"]
    /\ UNCHANGED <<terminal, sender_alive, input_channel, active_menu_item, app_frame>>

\* the EventLoop sends an event
EventSent ==
    /\ sender_alive
    /\ app_pc # "stopped"
    /\ Len(input_channel) < MaxQueued
    /\ \E event \in AppEvents :
          /\ event = Input("I") => fetches.spawned < MaxFetches
          /\ input_channel' = Append(input_channel, event)
    /\ UNCHANGED <<app_pc, terminal, sender_alive, fetches, app_log, active_menu_item,
                   app_frame>>

\* the thread of the EventLoop ends and drops the sender
SenderDropped ==
    /\ sender_alive
    /\ app_pc # "stopped"
    /\ sender_alive' = FALSE
    /\ UNCHANGED <<app_pc, terminal, input_channel, fetches, app_log, active_menu_item,
                   app_frame>>

\* a fetch thread ends: fetch_issues sends its data, or has none to send
FetchEnds ==
    /\ fetches.running > 0
    /\ app_pc # "stopped"
    /\ \E sends \in BOOLEAN :
          fetches' = [fetches EXCEPT !.running = @ - 1,
                                     !.queued = IF sends THEN @ + 1 ELSE @]
    /\ UNCHANGED <<app_pc, terminal, sender_alive, input_channel, app_log, active_menu_item,
                   app_frame>>

\* the steps of the main thread
AppStep ==
    \/ SetupTerminal
    \/ AppNew
    \/ Clear
    \/ Draw
    \/ RecvOk
    \/ RecvErr
    \/ TryRecv

NextApp ==
    \/ AppStep
    \/ EventSent
    \/ SenderDropped
    \/ FetchEnds

SpecApp == InitApp /\ [][NextApp]_vars

----------------------------------------------------------------------------
(* The request threads one by one: every thread that send_request spawns is
   a request of its own, numbered in dispatch order, so that the results on
   the channel and the data a list view holds can be traced to the dispatch
   they come from. *)

\* at most MaxRequests requests are dispatched
MaxRequests == 4

\* keys that select a view by its name
ViewKeys == {Key("I", "SHIFT"), Key("P", "SHIFT")}

\* a request thread: the type of its query and how far it is
Request(request_type, status) == [type |-> request_type, status |-> status]

\* the response of request `id` to a list query
Response(id, request_type, repository) ==
    [type |-> request_type, remote |-> "", repository |-> repository, id |-> id]

\* the threads a handler spawned, one per thread::spawn call: the first
\* `count` of them run, the others end at once without a response
RECURSIVE Spawned(_, _)
Spawned(spawned, count) ==
    IF spawned = <<>>
    THEN <<>>
    ELSE <<Request(Head(spawned), IF count > 0 THEN "running" ELSE "failed")>>
         \o Spawned(Tail(spawned), IF count > 0 THEN count - 1 ELSE 0)

\* the number of request threads running
Running(running) == running["Issues"] + running["PullRequests"] + running["Projects"]

\* perform_issues_query and its like sending the response twice
perform_query_twice(channel, response) == Append(Append(channel, response), response)

\* perform_issues_query / perform_pull_requests_query / perform_projects_query
\* with response data: response_sender.send(..), once
perform_query(channel, response) == Append(channel, response)

\* ListView::update that keeps the collection it already has
update_keeping_collection(held, response) == IF held = <<>> THEN <<response.id>> ELSE held

\* ListView::update, and create_issues_view and its like: the collection of
\* the view becomes the data of the response when that has a repository
update(held, response) == IF response.repository THEN <<response.id>> ELSE held

\* the collections of the views after Ui::tick processed `received`
RECURSIVE Updated(_, _)
Updated(held, received) ==
    IF received = <<>>
    THEN held
    ELSE LET response == Head(received) IN
         Updated(IF response.type # "ActiveRemote" /\ response.repository
                 THEN [held EXCEPT ![ViewName(response.type)] =
                                        update(@, response)]
                 ELSE held,
                 Tail(received))

\* the ids of a sequence of responses
Ids(responses) == [i \in DOMAIN responses |-> responses[i].id]

\* Ui::new with a token and a saved remote: request_all has spawned its threads
InitRace ==
    /\ LoopNew
    /\ UnitsNone
    /\ CredNew
    /\ AppNone
    /\ overflow_checks = TRUE
    /\ github_token = <<"token">>
    /\ LET ui == new(github_token, <<"git@github.com:owner/name.git">>, overflow_checks) IN
          /\ ui_stack = ui.ui_stack
          /\ active_menu_item = ui.active_menu_item
          /\ data_channel = ui.data_channel
          /\ state = ui.state
          /\ active_remote = ui.active_remote
          /\ quit = ui.quit
          /\ workers = ui.workers
          /\ panicked = ui.panicked
          /\ call = ui.log
          /\ requests = Spawned(ui.log.spawned, Running(ui.workers))
    /\ collection = [view \in {ISSUES_VIEW_NAME, PULL_REQUESTS_VIEW_NAME, PROJECTS_VIEW_NAME}
                        |-> <<>>]
    /\ applied = <<>>
    /\ completed = <<>>

\* the driver delivers a key that selects a view, while no more than
\* `limit` requests are dispatched in all
SelectViewUpTo(limit) ==
    /\ ~quit /\ ~panicked
    /\ \E key \in ViewKeys :
          LET ui == handle_input(Self("handle_input"), github_token, overflow_checks,
                                 key, <<>>, TRUE)
          IN /\ Becomes(ui)
             /\ requests' = requests \o Spawned(ui.log.spawned,
                                                Running(ui.workers) - Running(workers))
    /\ Len(requests') <= limit
    /\ UNCHANGED <<collection, applied, completed, overflow_checks, github_token,
                   loop_vars, cred_vars, app_vars, unit_vars>>

SelectView == SelectViewUpTo(MaxRequests)

\* one view is selected after the requests of Ui::new
SelectViewOnce == SelectViewUpTo(Len(RequestTypes) + 1)

\* the driver delivers a tick: the response taken off the channel is applied
ApplyTick ==
    /\ ~quit /\ ~panicked
    /\ LET ui == tick(Self("tick"), github_token, TRUE) IN
          /\ Becomes(ui)
          /\ collection' = Updated(collection, ui.log.received)
          /\ applied' = applied \o ui.log.received
          /\ requests' = requests \o Spawned(ui.log.spawned,
                                             Running(ui.workers) - Running(workers))
    /\ UNCHANGED <<completed, overflow_checks, github_token, loop_vars, cred_vars, app_vars, unit_vars>>

\* the query of request `id` returns data, whose `repository` is Some or
\* None, and the thread sends it
RequestSends ==
    /\ \E id \in DOMAIN requests, repository \in BOOLEAN :
          /\ requests[id].status = "running"
          /\ requests' = [requests EXCEPT ![id].status = "sent"]
          /\ workers' = [workers EXCEPT ![requests[id].type] = @ - 1]
          /\ data_channel' = perform_query(data_channel,
                                           Response(id, requests[id].type, repository))
          /\ completed' = Append(completed, id)
    /\ UNCHANGED <<collection, applied, ui_stack, overflow_checks, panicked, call,
                   active_menu_item, github_token, state, active_remote, quit,
                   loop_vars, cred_vars, app_vars, unit_vars>>

\* the query of request `id` fails or returns no data: the error is logged
RequestFails ==
    /\ \E id \in DOMAIN requests :
          /\ requests[id].status = "running"
          /\ requests' = [requests EXCEPT ![id].status = "failed"]
          /\ workers' = [workers EXCEPT ![requests[id].type] = @ - 1]
    /\ UNCHANGED <<collection, applied, completed, data_channel, ui_stack, overflow_checks,
                   panicked, call, active_menu_item, github_token, state, active_remote,
                   quit, loop_vars, cred_vars, app_vars, unit_vars>>

NextRace ==
    \/ SelectView
    \/ ApplyTick
    \/ RequestSends
    \/ RequestFails

SpecRace == InitRace /\ [][NextRace]_vars

NextDeliver ==
    \/ SelectViewOnce
    \/ ApplyTick
    \/ RequestSends
    \/ RequestFails

\* the driver keeps calling tick
SpecDeliver == InitRace /\ [][NextDeliver]_vars /\ WF_vars(ApplyTick)

----------------------------------------------------------------------------
(* Config::read_keys_node: the children of a `keys` node are read one by
   one.  A key string is the sequence of its parts, each a word in angle
   brackets or a single character. *)

\* a keys node has at most MaxBinds children
MaxBinds == 2

\* the words in angle brackets that parse_key_event knows, and the modifier of each
KnownModifiers ==
    [w \in {"<shft>", "<super>", "<ctrl>", "<alt>", "<meta>", "<hypr>"} |->
        CASE w = "<shft>" -> "SHIFT"
          [] w = "<super>" -> "SUPER"
          [] w = "<ctrl>" -> "CONTROL"
          [] w = "<alt>" -> "ALT"
          [] w = "<meta>" -> "META"
          [] w = "<hypr>" -> "HYPER"]

\* the words in angle brackets that occur in key strings: "<.+?>" finds them
Bracketed == DOMAIN KnownModifiers \cup {"<foo>"}

\* the characters [a-z] matches
LowerCase == {"j", "x"}

\* the key strings of bind entries
KeyStrings ==
    {<<"<ctrl>", "j">>, <<"<shft>", "<ctrl>", "x">>, <<"<foo>", "x">>, <<"<ctrl>", "<foo>", "j">>,
     <<"x">>, <<"<ctrl>">>, <<"<alt>", "X">>}

\* the names KeyAction::parse knows (KeyAction is declared outside config.rs)
KeyActions == {"NextItem", "PreviousItem", "NextView", "NextDetailItem", "PreviousDetailItem"}

ActionNames == {"NextView", "bogus"}

\* KeyAction::parse
KeyAction_parse(action) == IF action \in KeyActions THEN <<action>> ELSE <<>>

\* KeyEvent::new
KeyEvent(code, modifiers) == [code |-> code, modifiers |-> modifiers]

\* a child of the keys node: its name and its string entries, of which the
\* first is the key string and the second the action
Child(name, entries) == [name |-> name, entries |-> entries]

Children ==
    {Child(name, entries) :
        name \in {"bind", "unbind"},
        entries \in {<<>>} \cup {<<[key |-> k]>> : k \in KeyStrings}
                    \cup {<<[key |-> k], [action |-> a]>> : k \in KeyStrings, a \in ActionNames}}

\* Config::default: the key bindings
DefaultKeys ==
    (KeyEvent("j", {}) :> "NextItem") @@ (KeyEvent("k", {}) :> "PreviousItem")
    @@ (KeyEvent("Tab", {}) :> "NextView") @@ (KeyEvent("BackTab", {"SHIFT"}) :> "NextItem")
    @@ (KeyEvent("j", {"CONTROL"}) :> "NextDetailItem")
    @@ (KeyEvent("k", {"CONTROL"}) :> "PreviousDetailItem")

\* modifier_regex.find_iter(key_str): the words in angle brackets, in order
find_modifiers(key_str) ==
    LET bracketed(part) == part \in Bracketed IN SelectSeq(key_str, bracketed)

\* the loop of parse_key_event over the modifiers found: the known ones are
\* or-ed together, every other one is an UnrecognisedModifier error
RECURSIVE fold_modifiers(_, _)
fold_modifiers(modifiers, acc) ==
    IF modifiers = <<>>
    THEN acc
    ELSE fold_modifiers(
             Tail(modifiers),
             IF Head(modifiers) \in DOMAIN KnownModifiers
             THEN [acc EXCEPT !.key_modifier = @ \cup {KnownModifiers[Head(modifiers)]}]
             ELSE [acc EXCEPT !.errors = Append(@, "UnrecognisedModifier")])

\* key_regex ".*<[^>]+>(?<char>[a-z])": the lower-case character that follows
\* the last word in angle brackets that is followed by one
key_regex_char(key_str) ==
    LET matches == {i \in 1..(Len(key_str) - 1) :
                       key_str[i] \in Bracketed /\ key_str[i + 1] \in LowerCase}
    IN IF matches = {} THEN <<>> ELSE <<key_str[SetMax(matches) + 1]>>

\* Config::parse_key_event: without a key character the errors collected are
\* returned, with one the key event is returned and the errors are dropped
parse_key_event(key_str) ==
    LET folded == fold_modifiers(find_modifiers(key_str),
                                 [key_modifier |-> {}, errors |-> <<>>])
        char == key_regex_char(key_str)
    IN IF char = <<>>
       THEN [ret |-> "Err", errors |-> Append(folded.errors, "KeyNotFound")]
       ELSE [ret |-> "Ok", key |-> KeyEvent(char[1], folded.key_modifier),
             dropped |-> folded.errors]

\* one round of the loop of read_keys_node over the children: the bindings
\* and the errors after it
read_child(bindings, errors, node) ==
    LET skip(more) == [keys |-> bindings, errors |-> errors \o more] IN
    IF node.name # "bind" THEN skip(<<>>)
    ELSE IF Len(node.entries) = 0 THEN skip(<<"ExpectedMultipleValues">>)
    ELSE IF Len(node.entries) = 1 THEN skip(<<"ExpectedMultipleValues">>)
    ELSE LET action == KeyAction_parse(node.entries[2].action) IN
         IF action = <<>> THEN skip(<<"UnrecognisedAction">>)
         ELSE LET key_event == parse_key_event(node.entries[1].key) IN
              IF key_event.ret = "Err" THEN skip(key_event.errors)
              ELSE [keys |-> (key_event.key :> action[1]) @@ bindings, errors |-> errors]

\* a round of the loop: what the child was, the bindings before and after
\* it, and the errors it added
Round(node, before, after, added) ==
    [child |-> node, before |-> before, after |-> after, added |-> added]

\* Config::default, and a keys node about to be read
InitKeys ==
    /\ LoopNew
    /\ RaceNone
    /\ CredNew
    /\ AppNone
    /\ ui_stack = UiStackNew
    /\ overflow_checks = TRUE
    /\ panicked = FALSE
    /\ call = Call("new", NoName, 0, FALSE, UiStackNew, UiStackNew)
    /\ active_menu_item = "Issues"
    /\ data_channel = <<>>
    /\ github_token = <<>>
    /\ state = [repository_state |-> <<>>]
    /\ active_remote = <<>>
    /\ quit = FALSE
    /\ workers = NoWorkers
    /\ ListNone
    /\ ExplorerNone
    /\ config_keys = DefaultKeys
    /\ \E n \in 0..MaxBinds : key_node \in [1..n -> Children]
    /\ key_errors = <<>>
    /\ rounds = <<>>
    /\ keys_pc = "for"

\* the loop of read_keys_node takes the next child
ReadChild ==
    /\ keys_pc = "for"
    /\ Len(rounds) < Len(key_node)
    /\ LET node == key_node[Len(rounds) + 1]
           read == read_child(config_keys, key_errors, node)
       IN /\ config_keys' = read.keys
          /\ key_errors' = read.errors
          /\ rounds' = Append(rounds, Round(node, config_keys, read.keys,
                                            SubSeq(read.errors, Len(key_errors) + 1,
                                                   Len(read.errors))))
    /\ UNCHANGED <<key_node, keys_pc, stack_vars, ui_vars, loop_vars, cred_vars, app_vars,
                   race_vars, list_vars, explorer_vars>>

\* read_keys_node returns Ok when it met no error and its errors otherwise;
\* from_kdl_str logs each of them
KeysReturn ==
    /\ keys_pc = "for"
    /\ Len(rounds) = Len(key_node)
    /\ keys_pc' = IF key_errors = <<>> THEN "Ok" ELSE "Err"
    /\ UNCHANGED <<config_keys, key_node, key_errors, rounds, stack_vars, ui_vars, loop_vars,
                   cred_vars, app_vars, race_vars, list_vars, explorer_vars>>

NextKeys ==
    \/ ReadChild
    \/ KeysReturn

SpecKeys == InitKeys /\ [][NextKeys]_vars

----------------------------------------------------------------------------
(* ListView: a list of items with a selected item; its tick asks for the
   details of the selected item when the selection has changed *)

\* a collection has at most MaxItems items
MaxItems == 3

\* at most MaxSent detail requests are recorded
MaxSent == 2

\* usize::saturating_sub
saturating_sub(a, b) == IF a >= b THEN a - b ELSE 0

\* ListView::new on a collection of `items` items
ListView_new(items) ==
    [collection |-> items, item_amount |-> items, selected_item |-> 0,
     changed_selected_item |-> FALSE]

\* ListView::select_next_item (the saturating_add cannot saturate: the
\* selected item is at most the number of items)
select_next_item(view) ==
    [view EXCEPT
        !.selected_item = IF view.selected_item + 1 >= view.item_amount
                          THEN 0 ELSE view.selected_item + 1,
        !.changed_selected_item = TRUE]

\* ListView::select_previous_item
select_previous_item(view) ==
    [view EXCEPT
        !.selected_item = IF view.selected_item = 0
                          THEN saturating_sub(view.item_amount, 1)
                          ELSE view.selected_item - 1,
        !.changed_selected_item = TRUE]

\* ListView::update: `converted` is the number of items of the collection
\* from_repository_data built, or empty when it failed
ListView_update(view, converted) ==
    IF converted = <<>>
    THEN view
    ELSE [view EXCEPT
            !.collection = converted[1],
            !.item_amount = converted[1],
            !.selected_item = IF view.selected_item < converted[1] THEN view.selected_item
                              ELSE IF converted[1] > 0 THEN converted[1] - 1
                              ELSE 0,
            !.changed_selected_item = TRUE]

\* ListView::tick: with the selection changed it indexes get_items() at
\* selected_item, which panics outside the items, and sends the detail request
ListView_tick(view) ==
    IF ~view.changed_selected_item
    THEN [view |-> view, sent |-> <<>>, panic |-> FALSE]
    ELSE IF view.selected_item >= view.collection
    THEN [view |-> view, sent |-> <<>>, panic |-> TRUE]
    ELSE [view |-> [view EXCEPT !.changed_selected_item = FALSE],
          sent |-> <<view.selected_item>>, panic |-> FALSE]

\* what was called on the list view last
ListCall(op) == [op |-> op]

\* the frame of the list view
list_frame ==
    <<ui_stack, overflow_checks, ui_vars, loop_vars, cred_vars, app_vars, race_vars,
      keys_vars, explorer_vars>>

\* a list view as create_issues_view makes it, on any collection
InitList ==
    /\ LoopNew
    /\ RaceNone
    /\ CredNew
    /\ AppNone
    /\ KeysNone
    /\ ExplorerNone
    /\ ui_stack = UiStackNew
    /\ overflow_checks = TRUE
    /\ panicked = FALSE
    /\ call = ListCall("new")
    /\ active_menu_item = "Issues"
    /\ data_channel = <<>>
    /\ github_token = <<>>
    /\ state = [repository_state |-> <<>>]
    /\ active_remote = <<>>
    /\ quit = FALSE
    /\ workers = NoWorkers
    /\ \E items \in 0..MaxItems : list_view = ListView_new(items)
    /\ list_sent = <<>>

\* the key j
SelectNextItem ==
    /\ ~panicked
    /\ list_view' = select_next_item(list_view)
    /\ call' = ListCall("select_next_item")
    /\ UNCHANGED <<panicked, list_sent, list_frame>>

\* the key k
SelectPreviousItem ==
    /\ ~panicked
    /\ list_view' = select_previous_item(list_view)
    /\ call' = ListCall("select_previous_item")
    /\ UNCHANGED <<panicked, list_sent, list_frame>>

\* the Ui hands the view the data of a response
UpdateList ==
    /\ ~panicked
    /\ \E converted \in {<<>>} \cup {<<items>> : items \in 0..MaxItems} :
          list_view' = ListView_update(list_view, converted)
    /\ call' = ListCall("update")
    /\ UNCHANGED <<panicked, list_sent, list_frame>>

\* the tick of the view
TickList ==
    /\ ~panicked
    /\ Len(list_sent) < MaxSent
    /\ LET ticked == ListView_tick(list_view) IN
          /\ list_view' = ticked.view
          /\ list_sent' = list_sent \o ticked.sent
          /\ panicked' = ticked.panic
    /\ call' = ListCall("tick")
    /\ UNCHANGED list_frame

NextList ==
    \/ SelectNextItem
    \/ SelectPreviousItem
    \/ UpdateList
    \/ TickList

SpecList == InitList /\ [][NextList]_vars

----------------------------------------------------------------------------
(* RemoteExplorer: the names of the remotes of the repository that contain
   the mask typed so far, and a selected entry.  A usize is an integer of the
   machine's width: a negative number v stands for 2^w + v, the value that a
   subtraction below zero wraps to in a build without overflow checks. *)

\* the mask has at most MaxMask characters
MaxMask == 2

\* the index of the selected entry is followed up to MaxSelected from
\* either end of the range of usize
MaxSelected == 3

\* the names of remotes, as sequences of characters in ascending order
RemoteNames == << <<"a", "b">>, <<"b">> >>

\* the characters that can be typed
MaskChars == {"a", "b", "z"}

\* the remotes a repository may have
Repositories == {{}, {1}, {1, 2}}

\* usize `>=`
usize_ge(a, b) ==
    CASE a >= 0 /\ b >= 0 -> a >= b
      [] a < 0 /\ b < 0 -> a >= b
      [] a < 0 /\ b >= 0 -> TRUE
      [] OTHER -> FALSE

\* usize `a - b`: a panic with overflow checks when b is greater, the
\* wrapped value without
usize_sub(a, b, checks) ==
    IF usize_ge(a, b)
    THEN [value |-> a - b, panic |-> FALSE]
    ELSE [value |-> a - b, panic |-> checks]

\* str::contains: the mask occurs in the entry
contains(entry, mask) ==
    \E i \in 0..(Len(entry) - Len(mask)) : SubSeq(entry, i + 1, i + Len(mask)) = mask

\* RemoteExplorer::update_items: the names of the remotes that contain the
\* mask, sorted, and the first entry selected
update_items(explorer) ==
    LET shown(i) == i \in explorer.remotes /\ contains(RemoteNames[i], explorer.remote_mask)
        kept == SelectSeq([i \in 1..Len(RemoteNames) |-> i], shown)
    IN [explorer EXCEPT
           !.items = [i \in 1..Len(kept) |-> RemoteNames[kept[i]]],
           !.selected = <<0>>]

\* RemoteExplorer::new in a repository with the remotes `remotes`
RemoteExplorer_new(remotes) ==
    update_items([remotes |-> remotes, remote_mask |-> <<>>, items |-> <<>>,
                  selected |-> <<>>])

\* RemoteExplorer::next_entry
next_entry(explorer, checks) ==
    IF explorer.selected = <<>>
    THEN [explorer |-> [explorer EXCEPT !.selected = <<0>>], panic |-> FALSE]
    ELSE LET last == usize_sub(Len(explorer.items), 1, checks) IN
         IF last.panic
         THEN [explorer |-> explorer, panic |-> TRUE]
         ELSE [explorer |-> [explorer EXCEPT
                                !.selected = IF usize_ge(explorer.selected[1], last.value)
                                             THEN <<0>>
                                             ELSE <<explorer.selected[1] + 1>>],
               panic |-> FALSE]

\* RemoteExplorer::previous_entry
previous_entry(explorer, checks) ==
    IF explorer.selected # <<>> /\ explorer.selected[1] # 0
    THEN [explorer |-> [explorer EXCEPT !.selected = <<explorer.selected[1] - 1>>],
          panic |-> FALSE]
    ELSE LET last == usize_sub(Len(explorer.items), 1, checks) IN
         IF last.panic
         THEN [explorer |-> explorer, panic |-> TRUE]
         ELSE [explorer |-> [explorer EXCEPT !.selected = <<last.value>>], panic |-> FALSE]

\* RemoteExplorer::add_to_mask
add_to_mask(explorer, char) ==
    update_items([explorer EXCEPT !.remote_mask = Append(@, char)])

\* RemoteExplorer::remove_from_mask
remove_from_mask(explorer) ==
    IF Len(explorer.remote_mask) = 0
    THEN explorer
    ELSE update_items([explorer EXCEPT
                          !.remote_mask = SubSeq(@, 1, Len(@) - 1)])

\* what was called on the explorer last
ExplorerCall(op) == [op |-> op]

\* the frame of the explorer
explorer_frame ==
    <<ui_stack, ui_vars, loop_vars, cred_vars, app_vars, race_vars, keys_vars, list_vars>>

\* RemoteExplorer::new in any repository, in a build with or without
\* overflow checks
InitExplorer ==
    /\ LoopNew
    /\ RaceNone
    /\ CredNew
    /\ AppNone
    /\ KeysNone
    /\ ListNone
    /\ ui_stack = UiStackNew
    /\ overflow_checks \in BOOLEAN
    /\ panicked = FALSE
    /\ call = ExplorerCall("new")
    /\ active_menu_item = "Issues"
    /\ data_channel = <<>>
    /\ github_token = <<>>
    /\ state = [repository_state |-> <<>>]
    /\ active_remote = <<>>
    /\ quit = FALSE
    /\ workers = NoWorkers
    /\ \E remotes \in Repositories : remote_explorer = RemoteExplorer_new(remotes)

\* the key Tab
NextEntry ==
    /\ ~panicked
    /\ LET moved == next_entry(remote_explorer, overflow_checks) IN
          /\ moved.explorer.selected[1] \in -MaxSelected..MaxSelected
          /\ remote_explorer' = moved.explorer
          /\ panicked' = moved.panic
    /\ call' = ExplorerCall("next_entry")
    /\ UNCHANGED <<overflow_checks, explorer_frame>>

\* the key BackTab
PreviousEntry ==
    /\ ~panicked
    /\ LET moved == previous_entry(remote_explorer, overflow_checks) IN
          /\ moved.explorer.selected[1] \in -MaxSelected..MaxSelected
          /\ remote_explorer' = moved.explorer
          /\ panicked' = moved.panic
    /\ call' = ExplorerCall("previous_entry")
    /\ UNCHANGED <<overflow_checks, explorer_frame>>

\* a character is typed
AddToMask ==
    /\ ~panicked
    /\ Len(remote_explorer.remote_mask) < MaxMask
    /\ \E char \in MaskChars : remote_explorer' = add_to_mask(remote_explorer, char)
    /\ call' = ExplorerCall("add_to_mask")
    /\ UNCHANGED <<panicked, overflow_checks, explorer_frame>>

\* the key Backspace
RemoveFromMask ==
    /\ ~panicked
    /\ remote_explorer' = remove_from_mask(remote_explorer)
    /\ call' = ExplorerCall("remove_from_mask")
    /\ UNCHANGED <<panicked, overflow_checks, explorer_frame>>

NextExplorer ==
    \/ NextEntry
    \/ PreviousEntry
    \/ AddToMask
    \/ RemoveFromMask

SpecExplorer == InitExplorer /\ [][NextExplorer]_vars

----------------------------------------------------------------------------
(* Properties of the UiStack, checked under SpecStack *)

\* the name index agrees with the entries: every live entry's name is indexed
\* at that entry's priority, and every indexed name has a live entry under it
IndexConsistent(s) ==
    /\ \A p \in DOMAIN s.panels :
          /\ s.panels[p].name \in DOMAIN s.panel_names
          /\ s.panel_names[s.panels[p].name] = p
    /\ \A n \in DOMAIN s.panel_names :
          /\ s.panel_names[n] \in DOMAIN s.panels
          /\ s.panels[s.panel_names[n]].name = n

\* the priorities are exactly 0..N-1 for N live entries
Dense(s) == DOMAIN s.panels = 0..(Cardinality(DOMAIN s.panels) - 1)

\* an entry with its focus flag cleared, to compare entries up to focus
Unfocused(e) == [e EXCEPT !.panel.is_focused = FALSE]

\* the entries in ascending priority order, leaving out the one at priority p
OthersInOrder(s, p) ==
    LET keys == Ascending(DOMAIN s.panels \ {p}) IN
    [i \in 1..Len(keys) |-> Unfocused(s.panels[keys[i]])]

\* the number of live priorities below p: where normalization puts priority p
Rank(s, p) == Cardinality({q \in DOMAIN s.panels : q < p})

\* C1: after every sequence of add_panel / remove_panel / remove_panel_by_name /
\* select_panel calls the name index maps every live entry's name to that
\* entry's priority and holds no name without a live entry (priorities are
\* unique because `panels` is keyed by priority).
C1_IndexConsistent == IndexConsistent(ui_stack)

\* C6: after a successful select_panel(name) the named panel is the only
\* panel of the stack that has focus.
C6_OnlySelectedFocused ==
    (call.op = "select_panel" /\ call.ret) =>
        \A p \in DOMAIN ui_stack.panels :
            ui_stack.panels[p].panel.is_focused => p = ui_stack.panel_names[call.name]

\* what C7 says of a successful select_panel(name) taking stack s to stack t
SelectPost(s, t, name) ==
    LET old == s.panel_names[name]
        top == SetMax(DOMAIN t.panels)
    IN /\ DOMAIN t.panels # {}
       /\ Unfocused(t.panels[top]) = Unfocused(s.panels[old])
       /\ OthersInOrder(t, top) = OthersInOrder(s, old)
       /\ Dense(t)
       /\ name \in DOMAIN t.panel_names /\ t.panel_names[name] = top
       /\ IndexConsistent(t)

\* C7: a successful select_panel(name) leaves the named panel with the highest
\* priority, keeps the relative order of the other panels, leaves the
\* priorities exactly 0..N-1, and leaves the name index agreeing with them.
C7_SelectRaisesAndNormalizes ==
    [][(call'.op = "select_panel" /\ call'.ret)
          => SelectPost(ui_stack, ui_stack', call'.name)]_vars

\* C7 and C9 fail only on stacks that add_panel has left with a stale name
\* index or with an entry at priority U8_MAX: on the other stacks a successful
\* select_panel does what C7 says.
SelectPostOnConsistentStacks ==
    [][(/\ call'.op = "select_panel" /\ call'.ret
        /\ IndexConsistent(ui_stack)
        /\ U8_MAX \notin DOMAIN ui_stack.panels)
          => SelectPost(ui_stack, ui_stack', call'.name)]_vars

\* C8: select_panel(name) returns false and changes nothing when the lookup of
\* the name finds no panel or when the panel found refuses focus.
C8_FailedSelectIsNoOp ==
    [][(/\ call'.op = "select_panel"
        /\ ~panicked'
        /\ LET found == get_panel_ref_by_name(ui_stack, call'.name) IN
              found = <<>> \/ found[1].panel.kind = "Ui")
          => (~call'.ret /\ ui_stack' = ui_stack)]_vars

\* C8 witness: a select_panel of an indexed name was refused on a stack whose
\* priorities have a gap, and the gap is still there
C8_Witness ==
    /\ call.op = "select_panel" /\ ~call.ret /\ ~panicked
    /\ get_panel_ref_by_name(ui_stack, call.name) # <<>>
    /\ ~Dense(ui_stack)
    /\ \E p \in DOMAIN ui_stack.panels : ui_stack.panels[p].panel.is_focused

\* C9: a successful select_panel(name) directly followed by another
\* select_panel(name) leaves the stack as the first one left it.
C9_SelectTwiceIsSelectOnce ==
    [][(/\ call.op = "select_panel" /\ call.ret
        /\ call'.op = "select_panel" /\ call'.name = call.name /\ ~panicked')
          => (call'.ret /\ ui_stack' = ui_stack)]_vars

\* what C10 says of normalize_priorities taking stack s to stack t
NormalizePost(s, t) ==
    /\ Dense(t)
    /\ iter(t) = iter(s)
    /\ DOMAIN t.panel_names \subseteq DOMAIN s.panel_names
    /\ \A n \in DOMAIN s.panel_names :
          s.panel_names[n] \in DOMAIN s.panels =>
              (n \in DOMAIN t.panel_names /\ t.panel_names[n] = Rank(s, s.panel_names[n]))

\* C10: normalize_priorities rewrites the priorities of N live panels to
\* 0..N-1 in the same order, keeps every panel, and rebuilds the name index
\* so that each name maps to the new priority of the panel it pointed at.
C10_NormalizeKeepsOrder ==
    [][call'.op = "normalize_priorities" => NormalizePost(ui_stack, ui_stack')]_vars

\* C10 witness: normalize_priorities has renumbered a stack of three panels
C10_Witness ==
    /\ call.op = "normalize_priorities" /\ call.changed
    /\ Cardinality(DOMAIN ui_stack.panels) = 3
    /\ Cardinality(DOMAIN ui_stack.panel_names) = 2

\* what C11 says of add_panel(panel, priority, name) taking stack s to stack t
AddPost(s, t, priority, name) ==
    /\ {p \in DOMAIN t.panels : t.panels[p].name = name} = {priority}
    /\ name \in DOMAIN t.panel_names
    /\ t.panel_names[name] = priority
    /\ get_panel_ref_by_name(t, name) = <<t.panels[priority]>>
    /\ \A p \in DOMAIN s.panels \ {priority} :
          s.panels[p].name = name => p \notin DOMAIN t.panels

\* C11: add_panel(panel, priority, name) called when an entry with the same
\* name or the same priority exists overwrites it: afterwards the stack holds
\* exactly one entry under that name and exactly one under that priority, both
\* the new panel, and the displaced entry is not reachable by name, priority
\* or iteration.
C11_AddPanelOverwrites ==
    [][call'.op = "add_panel" =>
          AddPost(ui_stack, ui_stack', call'.priority, call'.name)]_vars

\* the priority of the entry a remove call matches in stack s, if any: the
\* given priority, the priority the index holds for the given name, the
\* highest or the lowest priority
Matched(s, c) ==
    CASE c.op = "remove_panel" ->
            IF c.priority \in DOMAIN s.panels THEN <<c.priority>> ELSE <<>>
      [] c.op = "remove_panel_by_name" ->
            IF get_panel_ref_by_name(s, c.name) # <<>>
            THEN <<s.panel_names[c.name]>> ELSE <<>>
      [] c.op = "remove_highest_priority_panel" ->
            IF DOMAIN s.panels # {} THEN <<SetMax(DOMAIN s.panels)>> ELSE <<>>
      [] c.op = "remove_lowest_priority_panel" ->
            IF DOMAIN s.panels # {} THEN <<SetMin(DOMAIN s.panels)>> ELSE <<>>

\* what the remove call c returns on stack s
Removed(s, c) ==
    CASE c.op = "remove_panel" -> remove_panel(s, c.priority).ret
      [] c.op = "remove_panel_by_name" -> remove_panel_by_name(s, c.name).ret
      [] c.op = "remove_highest_priority_panel" -> remove_highest_priority_panel(s).ret
      [] c.op = "remove_lowest_priority_panel" -> remove_lowest_priority_panel(s).ret

RemoveOps == {"remove_panel", "remove_panel_by_name",
              "remove_highest_priority_panel", "remove_lowest_priority_panel"}

\* what C12 says of the remove call c taking stack s to stack t
RemovePost(s, t, c) ==
    LET m == Matched(s, c) IN
    IF m = <<>>
    THEN Removed(s, c) = <<>> /\ t = s
    ELSE LET gone == s.panels[m[1]] IN
         /\ Removed(s, c) = <<gone>>
         /\ gone.name \notin DOMAIN t.panel_names
         /\ DOMAIN t.panels = DOMAIN s.panels \ {m[1]}
         /\ \A q \in DOMAIN t.panels :
               /\ t.panels[q] = s.panels[q]
               /\ s.panels[q].name \in DOMAIN s.panel_names =>
                     /\ s.panels[q].name \in DOMAIN t.panel_names
                     /\ t.panel_names[s.panels[q].name] = s.panel_names[s.panels[q].name]

\* C12: each of remove_panel, remove_panel_by_name,
\* remove_highest_priority_panel and remove_lowest_priority_panel returns the
\* removed entry when a matching entry exists and nothing otherwise (leaving
\* the stack unchanged then); afterwards the removed entry's name is absent
\* from the name index and every other entry keeps its priority and its name
\* mapping.
C12_RemoveReturnsAndFrames ==
    [][call'.op \in RemoveOps => RemovePost(ui_stack, ui_stack', call')]_vars

\* the same postcondition for calls on stacks whose index is consistent
RemovePostOnConsistentStacks ==
    [][(call'.op \in RemoveOps /\ IndexConsistent(ui_stack)) =>
          RemovePost(ui_stack, ui_stack', call')]_vars

\* add_panel's postcondition for calls with a fresh name and a fresh priority
AddPostOnFreshArguments ==
    [][(/\ call'.op = "add_panel"
        /\ call'.priority \notin DOMAIN ui_stack.panels
        /\ call'.name \notin DOMAIN ui_stack.panel_names
        /\ \A p \in DOMAIN ui_stack.panels : ui_stack.panels[p].name # call'.name) =>
          AddPost(ui_stack, ui_stack', call'.priority, call'.name)]_vars

----------------------------------------------------------------------------
(* Properties of the Ui, checked under SpecUi *)

\* C2: Ui.tick drains every envelope that is queued on the result channel
\* when it is called: after one tick none of the envelopes queued before it
\* is still unprocessed, however many were queued.
C2_TickDrainsChannel ==
    [][Tick => (call'.received = data_channel /\ data_channel' = <<>>)]_vars

\* the entries of stack s that want to quit are gone from stack t: not under
\* their priority, not under their name, not in the iteration
Reaped(s, t) ==
    /\ \A p \in DOMAIN s.panels :
          wants_to_quit(s.panels[p].panel) =>
              /\ p \notin DOMAIN t.panels
              /\ s.panels[p].name \notin DOMAIN t.panel_names
              /\ get_panel_ref_by_name(t, s.panels[p].name) = <<>>
    /\ \A i \in 1..Len(iter(t)) : ~wants_to_quit(iter(t)[i].panel)

\* a handle_input step that added a panel to the stack (handle_input removes
\* none, and the request threads do not touch the stack)
AddedPanel ==
    /\ call'.op = "handle_input"
    /\ DOMAIN ui_stack'.panels # DOMAIN ui_stack.panels

\* C3: a panel that reports wants_to_quit() is absent from the stack after
\* the next Ui.tick (by priority, by name and by iteration), and a later
\* add_panel under the same name makes lookup by that name return the new panel.
C3_QuittingPanelsAreReaped ==
    [][/\ Tick => Reaped(ui_stack, ui_stack')
       /\ AddedPanel =>
            get_panel_ref_by_name(ui_stack', REMOTE_EXPLORER_NAME) =
                <<Entry(NewPanel("RemoteExplorer"), REMOTE_EXPLORER_NAME)>>]_vars

\* an explorer opened by Ctrl+n after the one Ui::new opened was closed and
\* reaped: no remote was ever saved, yet a global command has run
C3_Witness ==
    /\ state.repository_state = <<>>
    /\ active_menu_item # "Issues"
    /\ get_panel_ref_by_name(ui_stack, REMOTE_EXPLORER_NAME) # <<>>
    /\ call.op = "handle_input"

\* C4: when Ui.tick processes ActiveRemote(X) it calls set_repository_data
\* exactly once, with (repo_root, X), sets the active remote to X, and then
\* dispatches exactly once for each of Issues, PullRequests and Projects,
\* whichever view is active.
C4_ActiveRemoteRefreshesAll ==
    [][Tick =>
        \A X \in Remotes :
            (\E i \in 1..Len(call'.received) : call'.received[i] = ActiveRemote(X)) =>
                /\ call'.set_calls = <<<<REPO_ROOT, X>>>>
                /\ state'.repository_state = <<X>>
                /\ active_remote' = <<X>>
                /\ Len(call'.dispatched) = Len(RequestTypes)
                /\ \A i \in 1..Len(RequestTypes) :
                      call'.dispatched[i].request_type = RequestTypes[i]]_vars

\* a tick that processed an ActiveRemote while another view than Issues was active
C4_Witness ==
    /\ call.op = "tick"
    /\ \E i \in 1..Len(call.received) : call.received[i].type = "ActiveRemote"
    /\ active_menu_item # "Issues"
    /\ Len(call.dispatched) = 3

\* C5: send_request called while the token is absent, or while no active
\* remote is resolved, spawns no thread, sends nothing on the channel, changes
\* no state of the Ui and returns Ok.
C5_DispatchWithoutPreconditionsIsNoOp ==
    (github_token = <<>> \/ active_remote = <<>>) =>
        \A request_type \in MenuItems :
            send_request(Self("send_request"), github_token, request_type) =
                [Self("send_request") EXCEPT
                    !.log.dispatched = <<Dispatch(request_type, "Ok")>>]

\* a key event dispatched a request while no remote was resolved
C5_Witness ==
    /\ active_remote = <<>>
    /\ call.op = "handle_input"
    /\ call.dispatched # <<>>
    /\ call.spawned = <<>>

\* C13: Ui.handle_input offers a key to the stacked panels in strictly
\* descending priority order and stops at the first panel whose handle_input
\* returns true; a global command (quit, next/previous view, direct view
\* selection, open remote explorer) runs only when no panel consumed the key.
C13_PanelsFirstThenGlobal ==
    \A key \in Keys, picked \in Options(Remotes), explorer_ok \in BOOLEAN :
        LET before == Self("handle_input")
            after == handle_input(before, github_token, overflow_checks,
                                  key, picked, explorer_ok)
            offered == after.log.offered
            n == Len(offered)
            consumes(p) == PanelHandles(ui_stack.panels[p].panel, key)
        IN /\ \A i \in 1..n : offered[i] \in DOMAIN ui_stack.panels
           /\ n > 0 => offered[1] = SetMax(DOMAIN ui_stack.panels)
           /\ \A i \in 1..(n - 1) :
                 /\ offered[i] > offered[i + 1]
                 /\ ~\E p \in DOMAIN ui_stack.panels : offered[i] > p /\ p > offered[i + 1]
                 /\ ~consumes(offered[i])
           /\ after.log.handled <=> (n > 0 /\ consumes(offered[n]))
           /\ ~after.log.handled => n = Cardinality(DOMAIN ui_stack.panels)
           /\ after.log.handled =>
                 /\ after.log.command = ""
                 /\ after.quit = before.quit
                 /\ after.active_menu_item = before.active_menu_item
                 /\ after.log.dispatched = <<>>
                 /\ DOMAIN after.ui_stack.panels = DOMAIN ui_stack.panels

\* a key event that the topmost of several panels consumed
C13_Witness ==
    /\ call.op = "handle_input"
    /\ call.handled
    /\ Len(call.offered) = 1
    /\ Cardinality(DOMAIN ui_stack.panels) > 1

\* a step of handle_input: it starts request threads but ends none, a step of
\* a request thread ends one
HandleInputStep ==
    /\ call'.op = "handle_input"
    /\ \A t \in DOMAIN workers : workers'[t] >= workers[t]

\* the view a global command of handle_input selects, if it selects one
SelectedView(command, selected) ==
    CASE command = "select_issues_view" -> <<"Issues">>
      [] command = "select_pull_requests_view" -> <<"PullRequests">>
      [] command = "select_projects_view" -> <<"Projects">>
      [] command \in {"select_next_menu_item", "select_previous_menu_item"} -> <<selected>>
      [] OTHER -> <<>>

\* C14: select_view(V) for V in {Issues, PullRequests, Projects} sets the
\* active view to V, calls select_panel on V's panel name, and issues exactly
\* one dispatch, for V's request kind and no other.
C14_SelectViewDispatchesOnce ==
    [][HandleInputStep =>
          LET view == SelectedView(call'.command, active_menu_item') IN
          view # <<>> =>
              LET V == view[1] IN
              /\ active_menu_item' = V
              /\ ui_stack' = select_panel(ui_stack, ViewName(V), overflow_checks).stack
              /\ ui_stack'.panel_names[ViewName(V)] = SetMax(DOMAIN ui_stack'.panels)
              /\ get_panel_ref_by_name(ui_stack', ViewName(V))[1].panel.is_focused
              /\ Len(call'.dispatched) = 1
              /\ call'.dispatched[1].request_type = V]_vars

\* Shift+R selected the projects view and its one request started a thread
C14_Witness ==
    /\ call.op = "handle_input"
    /\ call.command = "select_projects_view"
    /\ active_menu_item = "Projects"
    /\ call.spawned = <<"Projects">>

\* C15: at construction, if the saved state holds a remote for the repository
\* root, all three fetches (Issues, PullRequests, Projects) are dispatched and
\* no remote explorer is opened; otherwise the remote explorer is opened and
\* no fetch thread is spawned until an ActiveRemote envelope has been processed.
C15_ConstructionPolicy ==
    /\ call.op = "new" =>
          IF state.repository_state # <<>>
          THEN /\ Len(call.dispatched) = Len(RequestTypes)
               /\ \A i \in 1..Len(RequestTypes) :
                     call.dispatched[i].request_type = RequestTypes[i]
               /\ REMOTE_EXPLORER_NAME \notin DOMAIN ui_stack.panel_names
               /\ \A p \in DOMAIN ui_stack.panels :
                     ui_stack.panels[p].panel.kind # "RemoteExplorer"
          ELSE /\ call.dispatched = <<>>
               /\ get_panel_ref_by_name(ui_stack, REMOTE_EXPLORER_NAME) =
                     <<Entry(NewPanel("RemoteExplorer"), REMOTE_EXPLORER_NAME)>>
    /\ active_remote = <<>> =>
          /\ call.spawned = <<>>
          /\ workers = NoWorkers
          /\ \A i \in 1..Len(data_channel) : data_channel[i].type = "ActiveRemote"

\* with a token but still no remote (the explorer was closed with Esc), a
\* key event asked for a fetch
C15_Witness ==
    /\ github_token # <<>>
    /\ active_remote = <<>>
    /\ get_panel_ref_by_name(ui_stack, REMOTE_EXPLORER_NAME) = <<>>
    /\ call.op = "handle_input"
    /\ call.dispatched # <<>>

\* a step of tick: like handle_input it ends no request thread
TickStep ==
    /\ call'.op = "tick"
    /\ \A t \in DOMAIN workers : workers'[t] >= workers[t]

\* what C16 says of a list result `data` that a tick taking stack s to stack
\* t processed, given the tick's effects
Routed(s, t, effects, data) ==
    LET name == ViewName(data.type) IN
    IF get_panel_ref_by_name(s, name) # <<>>
    THEN \E i \in 1..Len(effects.updated) : effects.updated[i] = name
    ELSE /\ \E i \in 1..Len(effects.inserted) :
                effects.inserted[i] = <<name, get_highest_priority(s) + 1>>
         /\ get_panel_ref_by_name(t, name) # <<>>
         /\ t.panel_names[name] = get_highest_priority(s) + 1

\* C16: for each list or detail result that Ui.tick processes: if a panel
\* with the name expected for that result exists its update is called with
\* the data, otherwise a new panel holding the data is inserted under that
\* name at one above the current maximum priority; no processed result is
\* discarded without one of these two effects.
C16_ResultsAreRouted ==
    [][TickStep =>
          \A i \in 1..Len(call'.received) :
              call'.received[i].type # "ActiveRemote" =>
                  Routed(ui_stack, ui_stack', call', call'.received[i])]_vars

\* the same for the results whose response names a repository
RoutedWhenRepositoryPresent ==
    [][TickStep =>
          \A i \in 1..Len(call'.received) :
              (call'.received[i].type # "ActiveRemote" /\ call'.received[i].repository) =>
                  Routed(ui_stack, ui_stack', call', call'.received[i])]_vars

\* the insert branch, on the stack as it would be without the result's view
InsertsWhenViewIsMissing ==
    \A request_type \in MenuItems :
        LET before == [Self("tick") EXCEPT !.ui_stack =
                          remove_panel_by_name(@, ViewName(request_type)).stack]
            after == process_data(before, ListData(request_type, TRUE), TRUE)
        IN Routed(before.ui_stack, after.ui_stack, after.log, ListData(request_type, TRUE))

\* the priorities of the remote explorer panels of a stack
Explorers(s) == {p \in DOMAIN s.panels : s.panels[p].panel.kind = "RemoteExplorer"}

\* C17: in every reachable state of the Ui the stack contains at most one
\* remote explorer panel, and when it is present it has the highest priority
\* in the stack.
C17_OneExplorerOnTop ==
    /\ Cardinality(Explorers(ui_stack)) <= 1
    /\ \A p \in Explorers(ui_stack) : p = SetMax(DOMAIN ui_stack.panels)

\* Ctrl+n opened the remote explorer after another view had been selected
C17_Witness ==
    /\ call.op = "handle_input"
    /\ call.command = "open_remote_explorer"
    /\ Explorers(ui_stack) # {}
    /\ active_menu_item # "Issues"

\* C18: the remote explorer sets its quit flag exactly on a successful
\* selection (Enter) or on Escape: a successful selection sends exactly one
\* ActiveRemote(url) envelope and sets quit, Escape sets quit and sends
\* nothing, and a failed selection (no item selected, url lookup failure or
\* send failure) leaves quit as it was; no other key touches quit or sends.
C18_ExplorerQuitsOnSelectionOrEscape ==
    \A p \in Explorers(ui_stack), key \in Keys, picked \in Options(Remotes) :
        LET before == Self("handle_input")
            after == explorer_handle_input(before, p, key, picked)
            was == ui_stack.panels[p].panel.quit
            now == after.ui_stack.panels[p].panel.quit
            nothing_sent == after.data_channel = data_channel
            one_sent(url) == after.data_channel = Append(data_channel, ActiveRemote(url))
        IN CASE key = Key("Enter", "NONE") ->
                    \/ picked # <<>> /\ one_sent(picked[1]) /\ now
                    \/ nothing_sent /\ now = was
             [] key = Key("Esc", "NONE") -> nothing_sent /\ now
             [] OTHER -> nothing_sent /\ now = was

\* Enter in the remote explorer sent the selected remote and set quit
C18_Witness ==
    /\ call.op = "handle_input"
    /\ call.handled
    /\ \E p \in Explorers(ui_stack) : ui_stack.panels[p].panel.quit
    /\ data_channel # <<>>
    /\ data_channel[Len(data_channel)].type = "ActiveRemote"

----------------------------------------------------------------------------
(* Properties of the EventLoop, checked under SpecLoop and SpecLoopFair *)

\* C19: while no terminal event arrives, exactly one Tick is sent per tick
\* interval: the time between consecutive Ticks is never less than one
\* interval (no burst of duplicates), and a Tick is sent once a full interval
\* has elapsed since the last one (within the tolerance of the poll timer).
C19_OneTickPerInterval ==
    [][/\ (loop_pc = "send_tick" /\ sent' = "Tick") => since_tick >= TICK_RATE
       /\ (quiet' /\ receiver_open') => since_tick' <= TICK_RATE + PollLate]_vars

\* a Tick was just sent with no event waiting
C19_Witness ==
    /\ sent = "Tick"
    /\ quiet
    /\ receiver_open
    /\ loop_pc = "loop"
    /\ since_tick = 0
    /\ last_tick = 0

\* C20: the EventLoop keeps emitting Ticks at a bounded minimum rate even
\* under continuous input: on every run, including one where a terminal
\* event is pending at every poll, a Tick is eventually sent after each tick
\* interval elapses (as long as the receiver exists).
C20_TicksUnderContinuousInput ==
    (since_tick >= TICK_RATE) ~> (since_tick = 0 \/ ~receiver_open)

\* the same for the runs on which, again and again, event::poll is called
\* with no event waiting and then times out
TicksWhenInputPauses ==
    ([]<>(loop_pc = "poll" /\ terminal_events = <<>>) /\ SF_vars(PollTimeout))
        => C20_TicksUnderContinuousInput

\* a step of EventLoop::handle_event
HandleEventStep == loop_pc = "handle_event" /\ loop_pc' = "loop"

\* C21: every terminal event that event::poll reports is forwarded to the
\* consumer as exactly one Input event, in arrival order, in the same cycle
\* (the event read is the one that waited longest, and it is sent before the
\* loop goes round), and forwarding does not reset last_tick, so the next
\* poll timeout is the time remaining to the tick deadline.
C21_EveryEventForwarded ==
    [][/\ (HandleEventStep /\ receiver_open)
            => /\ sent' = "Input"
               /\ terminal_events' = Tail(terminal_events)
               /\ last_tick' >= last_tick
       /\ (loop_pc = "loop" /\ loop_pc' = "poll")
            => timeout' = poll_timeout(last_tick)]_vars

\* the same for key events only: handle_event forwards a key event, and no
\* step of handle_event resets last_tick
KeyEventsForwarded ==
    [][/\ (HandleEventStep /\ receiver_open /\ Head(terminal_events) = "Key")
            => /\ sent' = "Input"
               /\ terminal_events' = Tail(terminal_events)
       /\ HandleEventStep => last_tick' >= last_tick
       /\ (loop_pc = "loop" /\ loop_pc' = "poll")
            => timeout' = poll_timeout(last_tick)]_vars

----------------------------------------------------------------------------
(* Properties of the access tokens, checked under SpecCred and SpecCredFair *)

\* the position of a backend in the order of set_access_tokens
BackendIndex(b) == CHOOSE i \in DOMAIN Backends : Backends[i] = b

\* get_access_token(b) has returned
Resolved(b) ==
    \/ cred_pc \in {"done", "ui"}
    \/ BackendIndex(b) < BackendIndex(token_type)

\* the token field of a backend
TokenOf(b) ==
    CASE b = "github" -> github_token
      [] b = "gitlab" -> gitlab_token
      [] b = "gitea" -> gitea_token

\* the token a source gives when it has one; the token file gives its
\* contents without the surrounding whitespace
SourceToken(source) ==
    CASE source = "env" -> ENV_TOKEN
      [] source = "keyring" -> KEYRING_TOKEN
      [] source = "helper" -> HELPER_TOKEN
      [] source = "file" -> <<"f">>

\* the sources were asked in order
AskedInOrder(log) == \A i \in DOMAIN log : i <= Len(Sources) /\ log[i].source = Sources[i]

\* what C22 says of the attempts `log` made for a backend and of the token
\* field afterwards, when `wins` are the attempts that found a token
FirstSuccessWins(log, token, wins) ==
    /\ AskedInOrder(log)
    /\ IF wins # {}
       THEN /\ wins = {Len(log)}
            /\ token = <<SourceToken(log[Len(log)].source)>>
       ELSE /\ Len(log) = Len(Sources)
            /\ token = <<>>

\* the attempts that found a token
Found(log) == {i \in DOMAIN log : log[i].found}

\* the attempts other than the helper's that found a token
FoundOutsideHelper(log) == {i \in DOMAIN log : log[i].found /\ log[i].source # "helper"}

\* C22: get_access_token(backend) tries environment variable, secret store,
\* credential helper and token file strictly in this order; it returns the
\* value of the first source that has a token and asks no later source; a
\* source without one falls through to the next; it fails only when all four
\* have none.
C22_FirstSourceWins ==
    /\ \A b \in DOMAIN cred_log : AskedInOrder(cred_log[b])
    /\ \A b \in DOMAIN cred_log :
          Resolved(b) => FirstSuccessWins(cred_log[b], TokenOf(b), Found(cred_log[b]))

\* the same when a token the helper printed does not count as a success of
\* the helper: the order and the fall-through are as C22 says
FirstSourceWinsOutsideHelper ==
    /\ \A b \in DOMAIN cred_log : AskedInOrder(cred_log[b])
    /\ \A b \in DOMAIN cred_log :
          Resolved(b) => FirstSuccessWins(cred_log[b], TokenOf(b), FoundOutsideHelper(cred_log[b]))

\* wait_for_credential_output has returned
WaitReturned == wait.ret # ""

\* C23: wait_for_credential_output returns the helper's output whenever any
\* of its polls of the exit status observes that the helper has exited, and
\* it kills the helper only when every poll, including the final one, found
\* it still running.
C23_OutputWheneverExitObserved ==
    WaitReturned =>
        /\ Observed(wait) => wait.ret = "Output"
        /\ wait.ret = "TimedOut" => ~Observed(wait)

\* the same for the polls that the loop examines, which are all but the last
\* one: there is one poll before the loop and one after each sleep, and the
\* loop looks at credential_attempts of them
OutputWhenExitObservedBeforeLastPoll ==
    WaitReturned =>
        /\ (\E i \in DOMAIN wait.polls : i <= credential_attempts /\ wait.polls[i] = "Some")
              => wait.ret = "Output"
        /\ wait.ret = "TimedOut" =>
              /\ Len(wait.polls) = credential_attempts + 1
              /\ \A i \in 1..credential_attempts : wait.polls[i] = "None"

\* wait_for_credential_output is running
InWait == cred_pc \in {"try_wait", "for", "sleep", "kill"}

\* C24: the credential-helper wait always terminates: for every behaviour of
\* the helper, including one that never exits, wait_for_credential_output
\* sleeps at most credential_attempts times and then returns either the
\* output or a timeout failure.
C24_WaitTerminates ==
    /\ [](wait.sleeps <= credential_attempts)
    /\ [](InWait => <>(~InWait /\ wait.ret \in {"Output", "TimedOut"}))

\* the helper never exited: the wait slept as often as it may, killed the
\* helper and returned the timeout
C24_Witness ==
    /\ ~InWait
    /\ credential_attempts = MaxAttempts
    /\ wait.sleeps = credential_attempts
    /\ wait.ret = "TimedOut"
    /\ child.state = "killed"

\* what set_access_tokens makes of the last answer get_access_token got
TokenFromLog(log) ==
    IF log # <<>> /\ log[Len(log)].result.ok THEN <<log[Len(log)].result.token>> ELSE <<>>

\* every source of the backend was asked and none had a token
AllSourcesFailed(log) == Len(log) = Len(Sources) /\ Found(log) = {}

\* set_access_tokens has returned: it returned Ok, a backend none of whose
\* sources had a token has no token, and every backend's token is what its
\* own sources answered, whatever became of the other backends
TokensResolvedIndependently ==
    cred_pc \in {"done", "ui"} =>
        /\ cred_ret = "Ok"
        /\ \A b \in DOMAIN cred_log :
              /\ cred_log[b] # <<>>
              /\ AllSourcesFailed(cred_log[b]) => TokenOf(b) = <<>>
              /\ TokenOf(b) = TokenFromLog(cred_log[b])

\* Ui::new with a configuration without a github token: every dispatch
\* returns Ok without spawning a thread, and the Ui is otherwise the one that
\* a configuration with a token gives
DispatchesAreNoOps ==
    (cred_pc = "done" /\ cred_pc' = "ui" /\ github_token = <<>>) =>
        /\ call'.spawned = <<>>
        /\ workers' = NoWorkers
        /\ data_channel' = <<>>
        /\ ~panicked'
        /\ \A i \in DOMAIN call'.dispatched : call'.dispatched[i].ret = "Ok"
        /\ \E saved_remote \in Options(Remotes) :
              LET with_token == new(<<ENV_TOKEN>>, saved_remote, overflow_checks) IN
              /\ ui_stack' = with_token.ui_stack
              /\ active_remote' = with_token.active_remote
              /\ active_menu_item' = with_token.active_menu_item
              /\ state' = with_token.state
              /\ quit' = with_token.quit
              /\ call'.dispatched = [i \in DOMAIN with_token.log.dispatched |->
                                        Dispatch(with_token.log.dispatched[i].request_type, "Ok")]

\* C25: failure of all credential sources for a backend is not an error of
\* configuration loading: set_access_tokens leaves that backend's token
\* absent and returns success, the other backends' tokens are resolved
\* independently, and the only effect on the Ui is that every dispatch for
\* that backend is a no-op.
C25_MissingTokenIsNotFatal ==
    /\ []TokensResolvedIndependently
    /\ [][DispatchesAreNoOps]_vars

\* github has no token after all four sources failed, gitlab has one, and
\* Ui::new dispatched its three requests with a saved remote
C25_Witness ==
    /\ cred_pc = "ui"
    /\ cred_ret = "Ok"
    /\ AllSourcesFailed(cred_log["github"])
    /\ github_token = <<>>
    /\ gitlab_token # <<>>
    /\ active_remote # <<>> /\ repo_regex_captures(active_remote[1])
    /\ Len(call.dispatched) = 3
    /\ call.spawned = <<>>

----------------------------------------------------------------------------
(* Properties of the main loop, checked under SpecApp *)

\* the program has stopped after raw mode was enabled
StoppedInRawMode == app_pc = "stopped" /\ app_log.reason # "panic"

\* C26: terminal cleanup (raw mode disabled, cursor restored) has run on
\* every path by which the program stops after raw mode was enabled: normal
\* quit, a failed draw, Event-channel failure, and failure to construct the
\* application.
C26_CleanupOnEveryExit == StoppedInRawMode => terminal.cleanups >= 1

\* the same for the quit command, the one way the main loop is left: the
\* cleanup has run when the program stops on it, and it has run when recv has
\* reported that the channel is disconnected
CleanupOnQuitAndDisconnect ==
    /\ (app_pc = "stopped" /\ app_log.reason = "quit") => terminal.cleanups >= 1
    /\ app_log.reason = "disconnected" => terminal.cleanups >= 1

\* a step of the main thread that handles a failed recv
RecvErrStep == app_pc = "recv" /\ app_log'.op = "recv_error"

\* C27: the main loop ends exactly on a global quit command or on
\* Event-channel failure: when the blocking receive reports that the channel
\* is disconnected, terminal cleanup runs once and the loop is left (no
\* further draw or receive happens).
C27_LoopEndsOnQuitOrDisconnect ==
    /\ [][(app_pc \in {"draw", "recv", "try_recv"} /\ app_pc' = "stopped")
             => app_log'.reason \in {"quit", "disconnected"}]_vars
    /\ [][RecvErrStep => (terminal'.cleanups = terminal.cleanups + 1 /\ app_pc' = "stopped")]_vars
    /\ [](app_log.reason = "disconnected" => (terminal.cleanups = 1 /\ app_log.draws = 0))

\* the same without the channel failure: the loop is left on the quit
\* command only, and a failed recv runs the cleanup
LoopEndsOnQuitOnly ==
    /\ [][(app_pc \in {"draw", "recv", "try_recv"} /\ app_pc' = "stopped")
             => app_log'.reason = "quit"]_vars
    /\ [][RecvErrStep => terminal'.cleanups >= 1]_vars

----------------------------------------------------------------------------
(* Properties of the Ui under failures and concurrent requests, checked
   under SpecUi *)

\* C28: if persisting the repository state fails when ActiveRemote(X) is
\* processed, the failure is only logged: State's in-memory map still maps
\* the repository root to X (get returns X), the Ui's active remote becomes
\* X, and the three re-dispatches still happen, as they do when the state is
\* written.
C28_WriteFailureIsOnlyLogged ==
    [][TickStep =>
        \A X \in Remotes :
            ((\E i \in 1..Len(call'.received) : call'.received[i] = ActiveRemote(X))
             /\ call'.set_errors # <<>>) =>
                LET written == tick(Self("tick"), github_token, TRUE) IN
                /\ call'.set_errors = <<X>>
                /\ state'.repository_state = <<X>>
                /\ active_remote' = <<X>>
                /\ Len(call'.dispatched) = Len(RequestTypes)
                /\ \A i \in 1..Len(RequestTypes) :
                      call'.dispatched[i].request_type = RequestTypes[i]
                /\ call'.dispatched = written.log.dispatched
                /\ call'.spawned = written.log.spawned
                /\ workers' = written.workers
                /\ ui_stack' = written.ui_stack
                /\ data_channel' = written.data_channel
                /\ ~panicked' /\ ~quit']_vars

\* a tick processed an ActiveRemote whose write failed: the remote is
\* active and in the in-memory state, and three request threads were spawned
C28_Witness ==
    /\ call.op = "tick"
    /\ call.set_errors # <<>>
    /\ active_remote = <<call.set_errors[1]>>
    /\ state.repository_state = active_remote
    /\ Len(call.spawned) = 3

----------------------------------------------------------------------------
(* Properties of the request threads, checked under SpecRace *)

\* the responses pushed onto the result channel so far, in order: those tick
\* has taken off it, then those still on it
Pushed == Ids(applied) \o Ids(data_channel)

\* how often `id` occurs in a sequence of ids
Occurrences(ids, id) == Cardinality({i \in DOMAIN ids : ids[i] = id})

\* a request ends: its thread goes from running to sent or failed
Ends(id) == requests[id].status = "running" /\ requests'[id].status # "running"

\* every request has pushed one response if its exchange succeeded with data
\* and none otherwise
OneResponsePerSuccess ==
    \A id \in DOMAIN requests :
        Occurrences(Pushed, id) = IF requests[id].status = "sent" THEN 1 ELSE 0

\* a request that has ended stays as it ended, and the step in which a
\* request ends dispatches no request
NoRetry ==
    /\ \A id \in DOMAIN requests :
          requests[id].status # "running" =>
              /\ id \in DOMAIN requests'
              /\ requests'[id] = requests[id]
    /\ (\E id \in DOMAIN requests : Ends(id)) => Len(requests') = Len(requests)

\* C29: each dispatched request makes one exchange and pushes at most one
\* response onto the result channel, exactly one when the exchange succeeds
\* with data and none when it fails; a failed request is never retried
C29_OneExchangeNoRetry == []OneResponsePerSuccess /\ [][NoRetry]_vars

\* one request has sent its response, which tick has applied, another has
\* failed, and a view was selected after that
C29_Witness ==
    /\ \E id \in DOMAIN requests :
          requests[id].status = "sent" /\ Occurrences(Ids(applied), id) = 1
    /\ \E id \in DOMAIN requests :
          /\ requests[id].status = "failed"
          /\ \E later \in DOMAIN requests : later > id /\ requests[later].status = "running"

\* the responses tick has applied to the view `view`
AppliedTo(view) ==
    LET shown(response) == response.repository /\ ViewName(response.type) = view
    IN SelectSeq(applied, shown)

\* the view holds the data of the response applied to it last
HoldsLastApplied(view) ==
    collection[view] = IF AppliedTo(view) = <<>>
                       THEN <<>>
                       ELSE <<AppliedTo(view)[Len(AppliedTo(view))].id>>

\* C30: dispatches are neither deduplicated nor cancelled: every request
\* that completed delivers its own response, the responses are applied in
\* the order the requests completed, and a view holds the data of the
\* response applied to it last
C30_AppliedInCompletionOrder ==
    /\ Pushed = completed
    /\ \A id \in DOMAIN requests : requests[id].status = "sent" <=> Occurrences(completed, id) = 1
    /\ \A response \in {applied[i] : i \in DOMAIN applied} :
          response.type = requests[response.id].type
    /\ \A view \in DOMAIN collection : HoldsLastApplied(view)

\* two requests for the issues view were in flight at once, the one
\* dispatched later completed first, both responses carried data and were
\* applied, and the view holds the data of the one dispatched first
C30_Witness ==
    \E first, second \in DOMAIN requests :
        /\ first < second
        /\ requests[first].type = "Issues" /\ requests[second].type = "Issues"
        /\ Ids(AppliedTo(ISSUES_VIEW_NAME)) = <<second, first>>
        /\ completed = <<second, first>>
        /\ collection[ISSUES_VIEW_NAME] = <<first>>

----------------------------------------------------------------------------
(* Properties of the threads of the Ui, checked under SpecUi *)

\* a step of a request thread: it ends one thread
WorkerStep == \E t \in DOMAIN workers : workers'[t] < workers[t]

\* the channel is as it was or has one more envelope at its end
PushedOnly ==
    \/ data_channel' = data_channel
    \/ /\ Len(data_channel') = Len(data_channel) + 1
       /\ SubSeq(data_channel', 1, Len(data_channel)) = data_channel

\* C31: worker threads only push onto the result channel: the panel stack,
\* the active view and the active remote (and the state, the quit flag and
\* the panic flag) change in no step of a request thread, which leaves the
\* channel as it was or pushes one envelope; they change in steps of
\* handle_input and tick only
C31_WorkersOnlyPush ==
    [][/\ WorkerStep =>
            /\ ui_stack' = ui_stack
            /\ active_menu_item' = active_menu_item
            /\ active_remote' = active_remote
            /\ state' = state
            /\ quit' = quit
            /\ panicked' = panicked
            /\ PushedOnly
       /\ (ui_stack' # ui_stack \/ active_menu_item' # active_menu_item
           \/ active_remote' # active_remote) => HandleInputStep \/ TickStep]_vars

\* a request thread has pushed its data while a view other than the view of
\* that data is the active one and a remote explorer is on the stack
C31_Witness ==
    /\ data_channel # <<>>
    /\ data_channel[Len(data_channel)].type \in MenuItems \ {active_menu_item}
    /\ Pending(data_channel, workers) > Len(data_channel)
    /\ Explorers(ui_stack) # {}

----------------------------------------------------------------------------
(* Properties of read_keys_node, checked under SpecKeys *)

\* the key string and the action name of a bind entry that has both
KeyOf(node) == node.entries[1].key

ActionOf(node) == node.entries[2].action

\* the parts of a key string that are not words in angle brackets
Characters(key_str) ==
    LET plain(part) == part \notin Bracketed IN SelectSeq(key_str, plain)

\* a bind entry is malformed: its key or its action is missing, its action
\* or one of its modifiers is not recognised, or it has no key character
Malformed(node) ==
    \/ Len(node.entries) < 2
    \/ ActionOf(node) \notin KeyActions
    \/ \E i \in DOMAIN KeyOf(node) :
          KeyOf(node)[i] \in Bracketed \ DOMAIN KnownModifiers
    \/ Characters(KeyOf(node)) = <<>>

\* a bind entry in the form parse_key_event reads: known modifiers followed
\* by one lower-case character
Canonical(node) ==
    /\ ~Malformed(node)
    /\ Len(Characters(KeyOf(node))) = 1
    /\ Len(KeyOf(node)) > 1
    /\ KeyOf(node)[Len(KeyOf(node))] \in LowerCase

\* the key event a well-formed bind entry names
Named(node) ==
    KeyEvent(Characters(KeyOf(node))[1],
             {KnownModifiers[KeyOf(node)[i]] :
                 i \in {j \in DOMAIN KeyOf(node) : KeyOf(node)[j] \in Bracketed}})

\* the round skipped its entry and reported it
Skipped(round) == round.after = round.before /\ round.added # <<>>

\* the round bound the key of its entry to its action and reported nothing
Applied(round) ==
    /\ round.after = (Named(round.child) :> ActionOf(round.child)) @@ round.before
    /\ round.added = <<>>


\* C32: when a keys node is read, every malformed bind entry (missing key or
\* action, unrecognised action, unrecognised modifier, no key character)
\* inserts no binding and produces a diagnostic, and every well-formed bind
\* entry of the node is applied, whatever the order of the entries
C32_MalformedBindsAreSkipped ==
    /\ \A i \in DOMAIN rounds :
          rounds[i].child.name = "bind" =>
              IF Malformed(rounds[i].child) THEN Skipped(rounds[i]) ELSE Applied(rounds[i])
    /\ keys_pc = "Ok" => key_errors = <<>>
    /\ keys_pc = "Err" => key_errors # <<>>

\* what holds of the code: an entry without key or action, with an
\* unrecognised action or without a key character is skipped and reported,
\* and an entry of known modifiers followed by a lower-case character is
\* applied, whatever the order of the entries
MalformedBindsAreSkippedButModifiers ==
    /\ \A i \in DOMAIN rounds :
          LET node == rounds[i].child IN
          node.name = "bind" =>
              /\ (\/ Len(node.entries) < 2
                  \/ ActionOf(node) \notin KeyActions
                  \/ Characters(KeyOf(node)) = <<>>) => Skipped(rounds[i])
              /\ Canonical(node) => Applied(rounds[i])
    /\ keys_pc = "Ok" => key_errors = <<>>
    /\ keys_pc = "Err" => key_errors # <<>>

\* C33: while a remote explorer is in the stack of the Ui it captures all
\* input: no key event, with any modifier, changes the active view, sets the
\* quit flag, dispatches a request or opens a second explorer; in particular
\* q does not quit
C33_ExplorerCapturesInput ==
    [][HandleInputStep /\ Explorers(ui_stack) # {} =>
          /\ call'.handled
          /\ call'.command = ""
          /\ active_menu_item' = active_menu_item
          /\ quit' = quit
          /\ call'.dispatched = <<>>
          /\ call'.spawned = <<>>
          /\ workers' = workers
          /\ Explorers(ui_stack') = Explorers(ui_stack)
          /\ Cardinality(Explorers(ui_stack')) = 1]_vars

\* a key was delivered while a remote explorer was in the stack and a view
\* other than the first was the active one: the explorer consumed it
C33_Witness ==
    /\ call.op = "handle_input"
    /\ call.handled
    /\ Explorers(ui_stack) # {}
    /\ active_menu_item # "Issues"
    /\ ~quit

\* the priorities of the list views of a stack
ListViews(s) == {p \in DOMAIN s.panels : s.panels[p].panel.kind = "ListView"}

\* the three list views are all in the stack
ViewsPresent(s) ==
    \A request_type \in MenuItems :
        \E p \in ListViews(s) : s.panels[p].name = ViewName(request_type)

\* the view of the active menu item has the highest priority among the list
\* views and is the only list view that has focus
ActiveViewOnTop(s, item) ==
    \A p \in ListViews(s) :
        /\ s.panels[p].name = ViewName(item) => p = SetMax(ListViews(s))
        /\ s.panels[p].panel.is_focused <=> s.panels[p].name = ViewName(item)

\* C34: in every reachable state of the Ui (any sequence of key events,
\* ticks and arriving results) the three list views are all present, the
\* priorities of the stack are exactly 0..N-1 with N in {3, 4}, the panel of
\* the active view has the highest priority among the list views, and it is
\* the only list view that has focus
C34_ViewsInvariant ==
    /\ ViewsPresent(ui_stack)
    /\ Dense(ui_stack)
    /\ Cardinality(DOMAIN ui_stack.panels) \in {3, 4}
    /\ ActiveViewOnTop(ui_stack, active_menu_item)

\* a tick has run while the remote explorer is open above the three list
\* views and the projects view, selected before, is the active one
C34_Witness ==
    /\ call.op = "tick"
    /\ Cardinality(DOMAIN ui_stack.panels) = 4
    /\ Explorers(ui_stack) = {3}
    /\ active_menu_item = "Projects"
    /\ ui_stack.panels[2].name = PROJECTS_VIEW_NAME
    /\ ui_stack.panels[2].panel.is_focused

----------------------------------------------------------------------------
(* Properties of the ListView, checked under SpecList *)

\* C35: ListView::tick never indexes outside its items: after any sequence
\* of select_next_item, select_previous_item and update (on an empty
\* collection and with an update to an empty collection too), whenever tick
\* runs with changed_selected_item set, selected_item < item_amount; no tick
\* has panicked
C35_TickIndexInBounds ==
    /\ list_view.changed_selected_item => list_view.selected_item < list_view.item_amount
    /\ ~panicked

\* what holds of the code: the selected item is inside a collection that has
\* items, and is 0 when it has none; item_amount is the number of items
SelectedItemInBoundsUnlessEmpty ==
    /\ list_view.item_amount = list_view.collection
    /\ list_view.item_amount > 0 => list_view.selected_item < list_view.item_amount
    /\ list_view.item_amount = 0 => list_view.selected_item = 0
    /\ panicked => list_view.item_amount = 0

----------------------------------------------------------------------------
(* Properties of the RemoteExplorer, checked under SpecExplorer *)

\* the indices of the items, counted from 0
ItemIndices(explorer) == 0..(Len(explorer.items) - 1)

\* next_entry or previous_entry was called last
EntryMoved == call.op \in {"next_entry", "previous_entry"}

\* C36: next_entry and previous_entry always leave the selection on a valid
\* index of items and never compute items.len() - 1 on an empty list (which
\* panics or wraps), for every mask reachable by typing and deleting
\* characters, a mask that filters out every remote among them
C36_EntrySelectionValid ==
    /\ ~panicked
    /\ EntryMoved =>
          /\ remote_explorer.selected # <<>>
          /\ remote_explorer.selected[1] \in ItemIndices(remote_explorer)

\* what holds of the code: while the list has items the selection stays on
\* a valid index and nothing panics
EntrySelectionValidUnlessEmpty ==
    /\ panicked => remote_explorer.items = <<>>
    /\ (EntryMoved /\ remote_explorer.items # <<>>) =>
          /\ remote_explorer.selected # <<>>
          /\ remote_explorer.selected[1] \in ItemIndices(remote_explorer)

----------------------------------------------------------------------------
(* Priority arithmetic of the UiStack, checked under SpecStack *)

\* a step of select_panel that gets as far as `get_highest_priority() + 1`:
\* the panel is in the stack and accepts the focus
SelectComputesNext ==
    /\ call'.op = "select_panel"
    /\ get_panel_ref_by_name(ui_stack, call'.name) # <<>>
    /\ set_focus(get_panel_ref_by_name(ui_stack, call'.name)[1].panel, TRUE).ret

\* C38: priority arithmetic never leaves the u8 range: for every stack
\* reachable through add_panel with any priority in 0..255, the
\* `highest priority + 1` of select_panel and the running index of
\* normalize_priorities stay at most 255; nothing overflows
C38_PriorityArithmeticInRange ==
    [][/\ SelectComputesNext => get_highest_priority(ui_stack) + 1 <= U8_MAX
       /\ ~panicked'
       /\ Cardinality(DOMAIN ui_stack'.panels) <= U8_MAX]_vars

\* what holds of the code: the sum leaves the range only when a panel sits
\* at priority 255, and the index of normalize_priorities, which counts the
\* panels, stays in range
PriorityArithmeticInRangeBelowMax ==
    [][/\ (SelectComputesNext /\ U8_MAX \notin DOMAIN ui_stack.panels) =>
              get_highest_priority(ui_stack) + 1 <= U8_MAX
       /\ panicked' => U8_MAX \in DOMAIN ui_stack.panels
       /\ Cardinality(DOMAIN ui_stack'.panels) <= U8_MAX]_vars

----------------------------------------------------------------------------
(* Delivery of the responses, checked under SpecDeliver *)

\* the response of request `id` is on the result channel
OnChannel(id) == \E i \in DOMAIN data_channel : data_channel[i].id = id

\* a tick has processed the response of request `id`
Processed(id) == \E i \in DOMAIN applied : applied[i].id = id

\* C39: every response pushed onto the result channel is eventually
\* processed by some tick, provided tick keeps being called and finitely
\* many responses are sent, and the responses are processed in the order in
\* which they were pushed: a tick processes the oldest response on the channel
C39_EveryEnvelopeProcessedInOrder ==
    /\ \A id \in 1..MaxRequests : OnChannel(id) ~> Processed(id)
    /\ [][applied' # applied =>
             /\ data_channel # <<>>
             /\ applied' = Append(applied, Head(data_channel))
             /\ data_channel' = Tail(data_channel)]_vars

\* two responses were on the channel at once and both have been processed,
\* the one pushed first before the other, which was dispatched before it
C39_Witness ==
    /\ Len(applied) >= 2
    /\ Len(completed) >= 2
    /\ applied[1].id = completed[1]
    /\ applied[2].id = completed[2]
    /\ completed[1] > completed[2]
    /\ data_channel = <<>>
    /\ \A id \in DOMAIN requests : requests[id].status # "running"

----------------------------------------------------------------------------
(* Rotation of the views, checked under SpecUi *)

\* the name of the list view that has the highest priority among the list views
TopListView(s) == s.panels[SetMax(ListViews(s))].name

\* the rotation Issues -> PullRequests -> Projects -> Issues
Rotated(item) ==
    CASE item = "Issues" -> "PullRequests"
      [] item = "PullRequests" -> "Projects"
      [] item = "Projects" -> "Issues"

\* select_next_menu_item and select_previous_menu_item on a Ui
NextItem(ui) == select_next_menu_item(ui, github_token, overflow_checks)

PreviousItem(ui) == select_previous_menu_item(ui, github_token, overflow_checks)

\* two Uis show the same view: same active menu item, same topmost list panel
SameView(a, b) ==
    /\ a.active_menu_item = b.active_menu_item
    /\ TopListView(a.ui_stack) = TopListView(b.ui_stack)

\* C40: from every reachable state of the Ui, select_next_menu_item steps
\* Issues -> PullRequests -> Projects -> Issues and select_previous_menu_item
\* steps in the opposite direction; next followed by previous, and previous
\* followed by next, restore the active view and the topmost list panel, and
\* three nexts return to the starting view
C40_ViewRotationIsCycle ==
    ~panicked =>
        /\ NextItem(Shared).active_menu_item = Rotated(active_menu_item)
        /\ Rotated(PreviousItem(Shared).active_menu_item) = active_menu_item
        /\ TopListView(NextItem(Shared).ui_stack) = ViewName(Rotated(active_menu_item))
        /\ TopListView(PreviousItem(Shared).ui_stack)
               = ViewName(PreviousItem(Shared).active_menu_item)
        /\ SameView(PreviousItem(NextItem(Shared)), Shared)
        /\ SameView(NextItem(PreviousItem(Shared)), Shared)
        /\ SameView(NextItem(NextItem(NextItem(Shared))), Shared)
        /\ ~NextItem(Shared).panicked /\ ~PreviousItem(Shared).panicked

\* BackTab stepped back from the pull requests view to the issues view, which
\* is the topmost list panel again
C40_Witness ==
    /\ call.op = "handle_input"
    /\ call.command = "select_previous_menu_item"
    /\ active_menu_item = "Issues"
    /\ TopListView(ui_stack) = ISSUES_VIEW_NAME
    /\ call.spawned = <<"Issues">>

====
